---------------------------- MODULE Spec2Model ----------------------------
(***************************************************************************)
(* Model of the shard-counter extraction code of C1C-Achievements:         *)
(*   src/modules/achievements/ocr_pipeline.py    (template locator,        *)
(*        band reader, read_counters, the module-level template cache)     *)
(*   src/modules/achievements/locators/left_rail.py  (icon matching,       *)
(*        number regions)                                                  *)
(*   src/modules/achievements/commands/ocr_debug.py  (overlay builder)     *)
(*   src/cogs/shards/ocr.py   (left-rail number-only OCR entry points)     *)
(*                                                                         *)
(* Text is a sequence of one-character strings.  The external libraries    *)
(* (OpenCV, Pillow, Tesseract) are oracles: what they return for an image  *)
(* is part of the image's description, and an exception they throw is an   *)
(* outcome with err = TRUE.  Python's None is the integer NoneVal where    *)
(* the other values are counts.  A Python exception that leaves a function *)
(* is the field raised = TRUE of the function's result.                    *)
(***************************************************************************)
EXTENDS Integers, Sequences, FiniteSets, TLC

VARIABLES
    \* ---- digit normalisation (normalize_count, _parse_num_token)
    tok,        \* the token handed to the normalisers
    dsrc,       \* the digit string tok was rendered from (<<>>: a raw token)
    sep,        \* the grouping separator used for the rendering ("" : none)
    normPc,     \* "off" | "input" | "chosen" | "done"
    normCount,  \* normalize_count(tok)
    parseNum,   \* _parse_num_token(tok)
    \* ---- ocr_pipeline.py, called one call after the other
    disk,       \* the icon files of the asset directory: name -> file state
    cacheSet,   \* _TEMPLATE_CACHE is not None
    cacheTpl,   \* _TEMPLATE_CACHE: name -> template
    loads,      \* calls of load_templates so far
    call,       \* the entry point called last ("none" before the first call)
    img,        \* the image it was called on
    regions,    \* the regions its locator returned
    res,        \* what it returned
    pin,        \* an image whose first read_counters result is remembered
    pinRes,     \* that result, and whether pin was read again since
    twin,       \* set when img is the previous image with one region's
                \* engine answers changed: that region, the previous counts
    pipePc,     \* "off" | "idle" | "called" | "returned"
    \* ---- cogs/shards/ocr.py, called one call after the other
    ocrStack,   \* pytesseract and Pillow were imported
    shot,       \* the screenshot the entry point was called on
    ocrCall,    \* the entry point called last
    ocrRes,     \* what it returned
    ocrTwin,    \* set when shot is the previous screenshot with one band's
                \* engine answers changed: that band, the previous result
    ocrPc,      \* "off" | "idle" | "called" | "returned"
    \* ---- threads sharing _TEMPLATE_CACHE
    thr,        \* thread -> its entry point, image, position and the
                \* templates it has read from disk
    writes,     \* assignments to _TEMPLATE_CACHE so far
    \* ---- functions applied to one input at a time
    prep,       \* a preprocessor of ocr_pipeline.py: its position, which
                \* one, the crop it is handed and what it returned
    split,      \* a band split: its position, which one, the image's size,
                \* a token's centre line, the regions returned and the
                \* bands the token is in
    cog,        \* the shards cog: a button handler's position, its form
                \* and the snapshot it saved
    scal,       \* the scale step: its position, the decoded size, the
                \* factor and the resized size
    feat,       \* shared/config: the three module globals, the mappings
                \* last supplied and the last query's answer
    rsl,        \* one screenshot read at two resolutions: the position,
                \* the screenshot, the factor, the regions and results
    tess,       \* one tesseract_read call: its position, the band, what
                \* the engine answers, the configurations tried, the text
    rint,       \* one _read_int call: its position, the engine's
                \* answers, the rows kept, the two candidates, the result
    mtch,       \* one match_icons call: its position, the image, the
                \* templates and the hits returned
    pas,    \* a call of _read_counts_from_roi, pass by pass
    nroi,   \* a call of tiles_to_number_rois
    clm,    \* one claim of c1c_claims_appreciation: its state and its views
    lvl,    \* level_whisper_bot: one user's buffer, flush task and messages
    grp,    \* the claims bot's grouping buffer of one user
    wd,     \* the claims bot's watchdog, its clock and the gateway link
    pan     \* the shard scan prompt, its panel and its form

normVars == <<tok, dsrc, sep, normPc, normCount, parseNum>>

pipeVars ==
    <<disk, cacheSet, cacheTpl, loads, call, img, regions, res, pin, pinRes,
      twin, pipePc>>

ocrVars == <<ocrStack, shot, ocrCall, ocrRes, ocrTwin, ocrPc>>

thrVars == <<thr, writes>>

miniVars == <<prep, split, cog, scal, feat, rsl, tess, rint, mtch, pas, nroi, clm, lvl, grp, wd, pan>>

vars == <<normVars, pipeVars, ocrVars, thrVars, miniVars>>

\* what the actions of one part leave alone
notNorm == <<pipeVars, ocrVars, thrVars, miniVars>>

notPipe == <<normVars, ocrVars, thrVars, miniVars>>

notOcr == <<normVars, pipeVars, thrVars, miniVars>>

\* the threads touch the cache and the asset directory only
notThr ==
    <<normVars, ocrVars, call, img, regions, res, pin, pinRes, twin, pipePc,
      miniVars>>

\* the single functions touch nothing of the parts above
notMini == <<normVars, pipeVars, ocrVars, thrVars>>

notPanel == <<notMini, prep, split, cog, scal, feat, rsl, tess, rint, mtch, pas, nroi, clm, lvl, grp, wd>>

notWatch == <<notMini, prep, split, cog, scal, feat, rsl, tess, rint, mtch, pas, nroi, clm, lvl, grp, pan>>

notGroup == <<notMini, prep, split, cog, scal, feat, rsl, tess, rint, mtch, pas, nroi, clm, lvl, wd, pan>>

notLevel == <<notMini, prep, split, cog, scal, feat, rsl, tess, rint, mtch, pas, nroi, clm, grp, wd, pan>>

notClaim == <<notMini, prep, split, cog, scal, feat, rsl, tess, rint, mtch, pas, nroi, lvl, grp, wd, pan>>

notRois == <<notMini, prep, split, cog, scal, feat, rsl, tess, rint, mtch, pas, clm, lvl, grp, wd, pan>>

notPass == <<notMini, prep, split, cog, scal, feat, rsl, tess, rint, mtch, nroi, clm, lvl, grp, wd, pan>>

notMatch == <<notMini, prep, split, cog, scal, feat, rsl, tess, rint, pas, nroi, clm, lvl, grp, wd, pan>>

notReadInt == <<notMini, prep, split, cog, scal, feat, rsl, tess, mtch, pas, nroi, clm, lvl, grp, wd, pan>>

notTess == <<notMini, prep, split, cog, scal, feat, rsl, rint, mtch, pas, nroi, clm, lvl, grp, wd, pan>>

notRes == <<notMini, prep, split, cog, scal, feat, tess, rint, mtch, pas, nroi, clm, lvl, grp, wd, pan>>

notFeat == <<notMini, prep, split, cog, scal, rsl, tess, rint, mtch, pas, nroi, clm, lvl, grp, wd, pan>>

notScale == <<notMini, prep, split, cog, feat, rsl, tess, rint, mtch, pas, nroi, clm, lvl, grp, wd, pan>>

notCog == <<notMini, prep, split, scal, feat, rsl, tess, rint, mtch, pas, nroi, clm, lvl, grp, wd, pan>>

notSplit == <<notMini, prep, cog, scal, feat, rsl, tess, rint, mtch, pas, nroi, clm, lvl, grp, wd, pan>>

notPrep == <<notMini, split, cog, scal, feat, rsl, tess, rint, mtch, pas, nroi, clm, lvl, grp, wd, pan>>

-----------------------------------------------------------------------------
(* Text helpers: Python str methods on sequences of characters.            *)

DigitChars == {"0", "1", "2", "3", "4", "5", "6", "7", "8", "9"}

WhiteChars == {" "}

DigitVal(c) ==
    CASE c = "0" -> 0 [] c = "1" -> 1 [] c = "2" -> 2 [] c = "3" -> 3
      [] c = "4" -> 4 [] c = "5" -> 5 [] c = "6" -> 6 [] c = "7" -> 7
      [] c = "8" -> 8 [] c = "9" -> 9

\* Python's None where an int is expected (counts are never negative).
NoneVal == -1

\* str.replace(c, "") for every c in cs / re.sub("[cs]", "", s)
RemoveChars(s, cs) == SelectSeq(s, LAMBDA c : c \notin cs)

RECURSIVE LStripChars(_, _)
LStripChars(s, cs) ==
    IF s # <<>> /\ Head(s) \in cs THEN LStripChars(Tail(s), cs) ELSE s

RECURSIVE RStripChars(_, _)
RStripChars(s, cs) ==
    IF s # <<>> /\ s[Len(s)] \in cs
    THEN RStripChars(SubSeq(s, 1, Len(s) - 1), cs)
    ELSE s

\* str.strip()
Strip(s) == RStripChars(LStripChars(s, WhiteChars), WhiteChars)

\* str.isdigit(): non-empty and digits only
IsDigitStr(s) == s # <<>> /\ \A i \in 1..Len(s) : s[i] \in DigitChars

\* int(s) for a string of digits
RECURSIVE IntOf(_)
IntOf(s) ==
    IF s = <<>> THEN 0
    ELSE IntOf(SubSeq(s, 1, Len(s) - 1)) * 10 + DigitVal(s[Len(s)])

-----------------------------------------------------------------------------
(* ocr_pipeline.normalize_count                                            *)

\* a variant that forgets to drop the '.' grouping separator
normalize_count_keepdot(raw) ==
    LET text == RStripChars(Strip(raw), {"."})
        digits == RemoveChars(text, WhiteChars \cup {","})
    IN  IF text = <<>> THEN NoneVal
        ELSE IF ~IsDigitStr(digits) THEN NoneVal
        ELSE IntOf(digits)

normalize_count(raw) ==
    LET text == RStripChars(Strip(raw), {"."})
        digits == RemoveChars(text, WhiteChars \cup {",", "."})
    IN  IF text = <<>> THEN NoneVal
        ELSE IF ~IsDigitStr(digits) THEN NoneVal
        ELSE IntOf(digits)

(* cogs/shards/ocr._normalize_digits: l/I -> 1, O/o -> 0                   *)
_normalize_digits(s) ==
    [i \in 1..Len(s) |->
        IF s[i] \in {"l", "I"} THEN "1"
        ELSE IF s[i] \in {"O", "o"} THEN "0"
        ELSE s[i]]

(* cogs/shards/ocr._parse_num_token                                        *)
_parse_num_token(raw) ==
    LET t == RemoveChars(_normalize_digits(raw), {",", ".", " "})
    IN  IF IsDigitStr(t) THEN IntOf(t) ELSE 0

-----------------------------------------------------------------------------
(* Shard names, in the order of the in-game list (BAND_ORDER, TILE_ORDER). *)

BAND_ORDER == <<"Mystery", "Ancient", "Void", "Primal", "Sacred">>

TILE_ORDER == BAND_ORDER

ShardNames == {BAND_ORDER[i] : i \in 1..Len(BAND_ORDER)}

-----------------------------------------------------------------------------
(* Confidences.  A mean is kept as the fraction num/den; den = 0 is NaN    *)
(* (numpy's mean of an empty list).                                        *)

CONF_FLOOR == 35

Frac(n, d) == [num |-> n, den |-> d]

FracZero == Frac(0, 1)

FracMinusOne == Frac(-1, 1)

FracNaN == Frac(0, 0)

RECURSIVE SumSeq(_)
SumSeq(s) == IF s = <<>> THEN 0 ELSE Head(s) + SumSeq(Tail(s))

\* float(np.mean(xs))
MeanOf(xs) == IF xs = <<>> THEN FracNaN ELSE Frac(SumSeq(xs), Len(xs))

\* a > b on floats; every comparison with NaN is False
FracGt(a, b) == a.den # 0 /\ b.den # 0 /\ a.num * b.den > b.num * a.den

FracEq(a, b) == a.den # 0 /\ b.den # 0 /\ a.num * b.den = b.num * a.den

\* "".join(texts)
RECURSIVE Join(_)
Join(ss) == IF ss = <<>> THEN <<>> ELSE Head(ss) \o Join(Tail(ss))

-----------------------------------------------------------------------------
(* What Tesseract and OpenCV answer for one region (ROI):                  *)
(*   prepErr  _prep_bin's OpenCV calls raise                               *)
(*   data     image_to_data, psm 6: err, or the tokens <<[text, conf]>>    *)
(*   lenient  image_to_string, oem 3 psm 7: err, or the text               *)
(*   ppErr    preprocess_for_ocr's OpenCV calls raise                      *)
(*   prim, fb, single   image_to_string with DEFAULT_CONFIG, with psm 8    *)
(*            and with psm 10: err, or the text                            *)

Txt(t) == [err |-> FALSE, text |-> t]

TxtErr == [err |-> TRUE, text |-> <<>>]

Data(ts) == [err |-> FALSE, toks |-> ts]

DataErr == [err |-> TRUE, toks |-> <<>>]

Tk(t, c) == [text |-> t, conf |-> c]

(* ocr_pipeline._looks_like_number: ^\d+(?:[.,]\d+)?$ after strip and      *)
(* rstrip(".")                                                             *)
_looks_like_number(text) ==
    LET cleaned == RStripChars(Strip(text), {"."})
        seps == {i \in 1..Len(cleaned) : cleaned[i] \in {".", ","}}
    IN  /\ Strip(text) # <<>>
        /\ cleaned # <<>>
        /\ \/ IsDigitStr(cleaned)
           \/ \E i \in seps :
                 /\ IsDigitStr(SubSeq(cleaned, 1, i - 1))
                 /\ IsDigitStr(SubSeq(cleaned, i + 1, Len(cleaned)))

(* ocr_pipeline._lenient_digits                                            *)
_lenient_digits(roiEmpty, eng) ==
    IF roiEmpty THEN <<>>
    ELSE IF eng.lenient.err THEN <<>>
    ELSE SelectSeq(RemoveChars(eng.lenient.text, {","}),
                   LAMBDA c : c \in DigitChars)

\* the result of _read_int
IntRead(v, c, r) == [raised |-> FALSE, value |-> v, conf |-> c, raw |-> r]

IntRaised == [raised |-> TRUE, value |-> 0, conf |-> FracZero, raw |-> <<>>]

\* the tokens _read_int's loop keeps in all_texts / all_confs
AllTokens(eng) ==
    LET nonblank == SelectSeq(eng.data.toks,
                              LAMBDA t : t.text # <<>> /\ Strip(t.text) # <<>>)
    IN  [i \in 1..Len(nonblank) |->
            Tk(Strip(nonblank[i].text), nonblank[i].conf)]

TextsOf(ts) == [i \in 1..Len(ts) |-> ts[i].text]

ConfsOf(ts) == [i \in 1..Len(ts) |-> ts[i].conf]

\* the tokens that also go into texts / confs
StrictTokens(all) == SelectSeq(all, LAMBDA t : ~(t.conf < CONF_FLOOR))

\* _read_int's last lines: the value of best_raw
IntResult(best_raw, best_conf) ==
    IntRead(IF IsDigitStr(best_raw) THEN IntOf(best_raw) ELSE 0, best_conf,
            best_raw)

\* a choice that takes the lenient candidate whenever there is one
ChooseLenient(cand_a, conf_a, cand_b, conf_b) ==
    IF cand_b # <<>> THEN IntResult(cand_b, conf_b)
    ELSE IntResult(cand_a, conf_a)

\* the choice between candidate A (confident tokens) and candidate B (the
\* lenient pass)
ChooseCandidate(cand_a, conf_a, cand_b, conf_b) ==
    IF /\ cand_b # <<>>
       /\ \/ Len(cand_b) > Len(cand_a)
          \/ Len(cand_b) = Len(cand_a) /\ FracGt(conf_b, conf_a)
    THEN IntResult(cand_b, conf_b)
    ELSE IntResult(cand_a, conf_a)

\* the two candidates; the lenient pass runs if a token was below the floor
ScoreTokens(roiEmpty, eng, all, strict) ==
    ChooseCandidate(
        RemoveChars(Join(TextsOf(strict)), {" ", ","}),
        IF strict # <<>> THEN MeanOf(ConfsOf(strict)) ELSE FracZero,
        IF Len(all) > 0 /\ Len(strict) < Len(all)
        THEN _lenient_digits(roiEmpty, eng) ELSE <<>>,
        IF Len(all) > 0 /\ Len(strict) < Len(all)
        THEN MeanOf(SelectSeq(ConfsOf(all), LAMBDA c : c >= 0))
        ELSE FracZero)

WithStrict(roiEmpty, eng, all) ==
    ScoreTokens(roiEmpty, eng, all, StrictTokens(all))

\* the body of _read_int once image_to_data has answered
ReadIntScored(roiEmpty, eng) == WithStrict(roiEmpty, eng, AllTokens(eng))

\* _read_int without the try/except around image_to_data
_read_int_unguarded(roiEmpty, eng) ==
    IF roiEmpty THEN IntRead(0, FracZero, <<>>)
    ELSE IF eng.prepErr THEN IntRead(0, FracZero, <<>>)
    ELSE IF eng.data.err THEN IntRaised
    ELSE ReadIntScored(roiEmpty, eng)

(* ocr_pipeline._read_int                                                  *)
_read_int(roiEmpty, eng) ==
    IF roiEmpty THEN IntRead(0, FracZero, <<>>)
    ELSE IF eng.prepErr THEN IntRead(0, FracZero, <<>>)
    ELSE IF eng.data.err THEN IntRead(0, FracZero, <<>>)
    ELSE ReadIntScored(roiEmpty, eng)

\* tesseract_read's third attempt: the single-character mode, for Sacred
ReadSingle(eng, band_name, text) ==
    IF ~_looks_like_number(text) /\ band_name = "Sacred"
    THEN (IF eng.single.err THEN <<>> ELSE Strip(eng.single.text))
    ELSE text

\* tesseract_read's second attempt: the fallback configuration
ReadFallback(eng, band_name, text) ==
    ReadSingle(eng, band_name,
               IF ~_looks_like_number(text)
               THEN (IF eng.fb.err THEN <<>> ELSE Strip(eng.fb.text))
               ELSE text)

(* ocr_pipeline.tesseract_read, on the image preprocess_for_ocr returned   *)
tesseract_read(eng, band_name) ==
    IF eng.prim.err THEN <<>>
    ELSE ReadFallback(eng, band_name, Strip(eng.prim.text))

\* _read_band keeping the data reader's confidence for a legacy result
BandOutKeepConf(name, r, fallback_text, parsed) ==
    IF r.raised
    THEN [raised |-> TRUE, name |-> name, value |-> 0, conf |-> FracZero,
          text |-> <<>>, reader |-> "data"]
    ELSE IF r.value = 0 /\ r.raw = <<>> /\ parsed # NoneVal
    THEN [raised |-> FALSE, name |-> name, value |-> parsed,
          conf |-> r.conf, text |-> fallback_text, reader |-> "legacy"]
    ELSE [raised |-> FALSE, name |-> name, value |-> r.value,
          conf |-> r.conf, text |-> r.raw, reader |-> "data"]

\* _read_band's result: the legacy reader's if _read_int read nothing and
\* the legacy text parses
BandOut(name, r, fallback_text, parsed) ==
    IF r.raised
    THEN [raised |-> TRUE, name |-> name, value |-> 0, conf |-> FracZero,
          text |-> <<>>, reader |-> "data"]
    ELSE IF r.value = 0 /\ r.raw = <<>> /\ parsed # NoneVal
    THEN [raised |-> FALSE, name |-> name, value |-> parsed,
          conf |-> FracMinusOne, text |-> fallback_text, reader |-> "legacy"]
    ELSE [raised |-> FALSE, name |-> name, value |-> r.value,
          conf |-> r.conf, text |-> r.raw, reader |-> "data"]

BandParsed(name, r, fallback_text) ==
    BandOut(name, r, fallback_text, normalize_count(fallback_text))

(* ocr_pipeline._read_band: value, confidence, text and the metadata's     *)
(* reader; raised only if _read_int raises.  preprocess_for_ocr raises on  *)
(* an empty ROI or when OpenCV does.                                       *)
_read_band(name, roiEmpty, eng) ==
    BandParsed(name, _read_int(roiEmpty, eng),
               IF roiEmpty \/ eng.ppErr THEN <<>>
               ELSE tesseract_read(eng, name))

-----------------------------------------------------------------------------
(* locators/left_rail.py.  An image is                                     *)
(*   [h, w, icons, reads]: its height and width, what cv2.matchTemplate    *)
(*   and cv2.minMaxLoc answer for each icon template (icons[name] =        *)
(*   [scores, x, y], scores[k] the maximum at the k-th scale), and what    *)
(*   the OCR engine answers for the number region of each shard.           *)
(* A template is its size [h, w].  Lengths are small numbers here; the     *)
(* int(...) of a float product equals the floored integer quotient for     *)
(* every length below 45.                                                  *)

\* match_icons' default scales, in percent
DefaultScales == <<60, 70, 80, 90, 100, 110, 120, 130, 140, 150>>

\* match_icons' default thresh, in percent
DefaultThresh == 65

\* the smallest side of a resized template
MinTplSide == 10

Max2(a, b) == IF a >= b THEN a ELSE b

Min2(a, b) == IF a <= b THEN a ELSE b

\* Number ROI as % of the estimated tile bbox (x%, y%, w%, h%)
NUMBER_ROI(name) ==
    IF name = "Mystery" THEN <<6, 74, 35, 20>> ELSE <<6, 74, 28, 20>>

ROI_Y_OFFSET_PCT == 2

FileStates == {"ok", "missing", "unreadable"}

\* the size of every icon file of the asset directory
TplSize == [h |-> 10, w |-> 10]

\* load_templates taking every file for loadable
load_templates_unchecked(files) == [n \in ShardNames |-> TplSize]

(* load_templates: the files that exist and that cv2.imread can read       *)
load_templates(files) ==
    [n \in {m \in ShardNames : files[m] = "ok"} |-> TplSize]

TileHit(name, x, y, w, h, score) ==
    [name |-> name, x |-> x, y |-> y, w |-> w, h |-> h, score |-> score]

\* the loop over the scales with >= for >: the last of equal scores wins
RECURSIVE BestOverScalesLast(_, _, _, _, _, _, _)
BestOverScalesLast(image, name, tpl, scales, thresh, k, best) ==
    IF k > Len(scales) THEN best
    ELSE
      LET tw == Max2(MinTplSide, (tpl.w * scales[k]) \div 100)
          th == Max2(MinTplSide, (tpl.h * scales[k]) \div 100)
          m == image.icons[name]
          candidate == TileHit(name, m.x, m.y, tw, th, m.scores[k])
          next ==
            IF image.h < th \/ image.w < tw THEN best
            ELSE IF m.scores[k] < thresh THEN best
            ELSE IF best = <<>> \/ candidate.score >= best[1].score
                 THEN <<candidate>>
                 ELSE best
      IN  BestOverScalesLast(image, name, tpl, scales, thresh, k + 1, next)

\* match_icons' loop over the scales for one template, from the k-th scale
\* on; best is <<>> (None) or <<hit>>
RECURSIVE BestOverScales(_, _, _, _, _, _, _)
BestOverScales(image, name, tpl, scales, thresh, k, best) ==
    IF k > Len(scales) THEN best
    ELSE
      LET tw == Max2(MinTplSide, (tpl.w * scales[k]) \div 100)
          th == Max2(MinTplSide, (tpl.h * scales[k]) \div 100)
          m == image.icons[name]
          candidate == TileHit(name, m.x, m.y, tw, th, m.scores[k])
          next ==
            IF image.h < th \/ image.w < tw THEN best
            ELSE IF m.scores[k] < thresh THEN best
            ELSE IF best = <<>> \/ candidate.score > best[1].score
                 THEN <<candidate>>
                 ELSE best
      IN  BestOverScales(image, name, tpl, scales, thresh, k + 1, next)

\* list.sort(key=hit.y): a stable insertion sort
RECURSIVE InsertByY(_, _)
InsertByY(sorted, hit) ==
    IF sorted = <<>> THEN <<hit>>
    ELSE IF sorted[Len(sorted)].y <= hit.y THEN Append(sorted, hit)
    ELSE Append(InsertByY(SubSeq(sorted, 1, Len(sorted) - 1), hit),
                sorted[Len(sorted)])

RECURSIVE SortByY(_)
SortByY(hits) ==
    IF hits = <<>> THEN <<>>
    ELSE InsertByY(SortByY(SubSeq(hits, 1, Len(hits) - 1)), hits[Len(hits)])

\* match_icons' loop over TILE_ORDER, from the i-th name on
RECURSIVE HitsFrom(_, _, _, _, _)
HitsFrom(image, templates, scales, thresh, i) ==
    IF i > Len(TILE_ORDER) THEN <<>>
    ELSE
      LET name == TILE_ORDER[i]
          best == IF name \in DOMAIN templates
                  THEN BestOverScales(image, name, templates[name], scales,
                                      thresh, 1, <<>>)
                  ELSE <<>>
      IN  best \o HitsFrom(image, templates, scales, thresh, i + 1)

(* left_rail.match_icons                                                   *)
match_icons(image, templates, scales, thresh) ==
    IF DOMAIN templates = {} THEN <<>>
    ELSE SortByY(HitsFrom(image, templates, scales, thresh, 1))

(* left_rail.match_corners: the same search over the same templates        *)
match_corners(image, templates, scales, thresh) ==
    IF DOMAIN templates = {} THEN <<>>
    ELSE SortByY(HitsFrom(image, templates, scales, thresh, 1))

\* a number region: its shard, where it came from and its box
Region(name, src, x, y, w, h) ==
    [name |-> name, src |-> src, x |-> x, y |-> y, w |-> w, h |-> h]

\* the ndarray slice of a region is empty
RoiEmpty(r) == r.w <= 0 \/ r.h <= 0

\* the tile box without the cut at the image's right and bottom edge
TileBoxUnclipped(image, hit, fw, fh, ox, oy) ==
    LET tile_x == Max2(0, hit.x - (hit.w * ox) \div 100)
        tile_y == Max2(0, hit.y - (hit.h * oy) \div 100)
    IN  [x |-> tile_x, y |-> tile_y,
         x2 |-> tile_x + (hit.w * fw) \div 10,
         y2 |-> tile_y + (hit.h * fh) \div 10]

\* the tile box estimated from one hit with the factors fw, fh (tenths) and
\* the back-offsets ox, oy (percent), clipped to the image
TileBox(image, hit, fw, fh, ox, oy) ==
    LET tile_x == Max2(0, hit.x - (hit.w * ox) \div 100)
        tile_y == Max2(0, hit.y - (hit.h * oy) \div 100)
    IN  [x |-> tile_x, y |-> tile_y,
         x2 |-> Min2(image.w, tile_x + (hit.w * fw) \div 10),
         y2 |-> Min2(image.h, tile_y + (hit.h * fh) \div 10)]

\* the region from its corner and its unclipped size
ClipRegion(image, name, src, number_x, number_y, number_w, number_h) ==
    Region(name, src, number_x, number_y,
           Min2(image.w, number_x + number_w) - number_x,
           Min2(image.h, number_y + number_h) - number_y)

\* the number region inside a tile box, pct being NUMBER_ROI's percentages
NumberBox(image, name, src, tile, pct) ==
    ClipRegion(image, name, src,
               tile.x + (pct[1] * (tile.x2 - tile.x)) \div 100,
               tile.y + ((pct[2] + ROI_Y_OFFSET_PCT) * (tile.y2 - tile.y))
                           \div 100,
               (pct[3] * (tile.x2 - tile.x)) \div 100,
               (pct[4] * (tile.y2 - tile.y)) \div 100)

\* the number region of one hit
NumberRoi(image, hit, src, fw, fh, ox, oy) ==
    NumberBox(image, hit.name, src, TileBox(image, hit, fw, fh, ox, oy),
              NUMBER_ROI(hit.name))

(* left_rail.tiles_to_number_rois                                          *)
tiles_to_number_rois(image, hits) ==
    [i \in 1..Len(hits) |-> NumberRoi(image, hits[i], "template", 21, 19, 25, 35)]

(* left_rail.corners_to_number_rois                                        *)
corners_to_number_rois(image, hits) ==
    [i \in 1..Len(hits) |-> NumberRoi(image, hits[i], "corner", 32, 17, 10, 10)]

-----------------------------------------------------------------------------
(* ocr_pipeline.py: the locator.                                           *)

\* the fewest template regions find_counter_rois accepts
MinTemplateRois == 3

\* _legacy_find_counter_rois' loop with every band band_height high
RECURSIVE LegacyBandsEqual(_, _, _, _)
LegacyBandsEqual(image, band_height, idx, y0) ==
    IF idx >= Len(BAND_ORDER) THEN <<>>
    ELSE
      LET y1 == Min2(image.h, y0 + band_height)
      IN  <<Region(BAND_ORDER[idx + 1], "band", 0, y0, image.w, y1 - y0)>>
             \o LegacyBandsEqual(image, band_height, idx + 1, y1)

\* _legacy_find_counter_rois' loop: the idx-th band (0-based) starts at y0
RECURSIVE LegacyBands(_, _, _, _)
LegacyBands(image, band_height, idx, y0) ==
    IF idx >= Len(BAND_ORDER) THEN <<>>
    ELSE
      LET y1 == IF idx = Len(BAND_ORDER) - 1 THEN image.h
                ELSE Min2(image.h, y0 + band_height)
      IN  <<Region(BAND_ORDER[idx + 1], "band", 0, y0, image.w, y1 - y0)>>
             \o LegacyBands(image, band_height, idx + 1, y1)

(* ocr_pipeline._legacy_find_counter_rois                                  *)
_legacy_find_counter_rois(image) ==
    IF image.h <= 0 \/ image.w <= 0 THEN <<>>
    ELSE LegacyBands(image, Max2(image.h \div Len(BAND_ORDER), 1), 0, 0)

\* _template_rois_with_boxes' end: the corner hits' regions, or none
FromCorners(image, corner_hits) ==
    IF corner_hits # <<>> THEN corners_to_number_rois(image, corner_hits)
    ELSE <<>>

\* "if rois: return rois", else the corner search
FromTiles(image, templates, rois) ==
    IF rois # <<>> THEN rois
    ELSE FromCorners(image, match_corners(image, templates, DefaultScales,
                                          DefaultThresh))

TileRois(image, icon_hits) ==
    IF icon_hits # <<>> THEN tiles_to_number_rois(image, icon_hits) ELSE <<>>

(* ocr_pipeline._template_rois_with_boxes, given the templates it reads    *)
(* from the cache                                                          *)
_template_rois_with_boxes(image, templates) ==
    FromTiles(image, templates,
              TileRois(image, match_icons(image, templates, DefaultScales,
                                          DefaultThresh)))

\* "if len(rois) >= 3" of find_counter_rois_with_boxes
EnoughOrNone(rois) == IF Len(rois) >= MinTemplateRois THEN rois ELSE <<>>

(* ocr_pipeline.find_counter_rois_with_boxes                               *)
find_counter_rois_with_boxes(image, templates) ==
    EnoughOrNone(_template_rois_with_boxes(image, templates))

\* find_counter_rois filling the shards it did not match with equal bands
find_counter_rois_mixed(image, templates) ==
    LET template_rois == _template_rois_with_boxes(image, templates)
        found == {template_rois[i].name : i \in 1..Len(template_rois)}
        bands == _legacy_find_counter_rois(image)
    IN  IF Len(template_rois) >= 1
        THEN template_rois
               \o SelectSeq(bands, LAMBDA b : b.name \notin found)
        ELSE bands

\* "if len(template_rois) >= 3" of find_counter_rois
EnoughOrLegacy(image, template_rois) ==
    IF Len(template_rois) >= MinTemplateRois THEN template_rois
    ELSE _legacy_find_counter_rois(image)

(* ocr_pipeline.find_counter_rois                                          *)
find_counter_rois(image, templates) ==
    EnoughOrLegacy(image, _template_rois_with_boxes(image, templates))

\* the last region of rs with the name: a later band overwrites counts[name]
LastIndex(rs, n) ==
    CHOOSE i \in 1..Len(rs) :
        /\ rs[i].name = n
        /\ \A j \in (i + 1)..Len(rs) : rs[j].name # n

\* read_counters' result from what _read_band gave for each region
CountsOf(rs, bands) ==
    IF \E i \in 1..Len(rs) : bands[i].raised
    THEN [raised |-> TRUE, counts |-> [n \in {} |-> 0], bands |-> <<>>]
    ELSE [raised |-> FALSE,
          counts |-> [n \in {rs[i].name : i \in 1..Len(rs)} |->
                         bands[LastIndex(rs, n)].value],
          bands |-> bands]

(* ocr_pipeline.read_counters, rs being what its call of find_counter_rois *)
(* returned                                                                *)
read_counters(image, rs) ==
    CountsOf(rs, [i \in 1..Len(rs) |->
                     _read_band(rs[i].name, RoiEmpty(rs[i]),
                                image.reads[rs[i].name])])

\* no template at all: the {} of "_TEMPLATE_CACHE or {}"
NoTemplates == [n \in {} |-> TplSize]

\* the cache dropped after its first use
TemplatesDropped(cSet, cTpl, files) ==
    IF cSet THEN NoTemplates ELSE load_templates(files)

(* _template_rois_with_boxes' first lines: the templates it matches with,  *)
(* loaded when _TEMPLATE_CACHE is None                                     *)
TemplatesFor(cSet, cTpl, files) ==
    IF cSet THEN cTpl ELSE load_templates(files)

-----------------------------------------------------------------------------
(* The images and asset directories the calls are made with.               *)

EngBlank ==
    [prepErr |-> FALSE, data |-> Data(<<>>), lenient |-> Txt(<<>>),
     ppErr |-> FALSE, prim |-> Txt(<<>>), fb |-> Txt(<<>>),
     single |-> Txt(<<>>)]

\* every engine call raises (an engine error or a timeout)
EngFail ==
    [prepErr |-> FALSE, data |-> DataErr, lenient |-> TxtErr,
     ppErr |-> FALSE, prim |-> TxtErr, fb |-> TxtErr, single |-> TxtErr]

\* OpenCV raises in both preprocessors
EngCvFail == [EngBlank EXCEPT !.prepErr = TRUE, !.ppErr = TRUE]

\* one confident token "12"
EngConf12 == [EngBlank EXCEPT !.data = Data(<<Tk(<<"1", "2">>, 90)>>)]

\* "1" is confident, "6" is not; the lenient pass reads "16"
EngRescue ==
    [EngBlank EXCEPT !.data = Data(<<Tk(<<"1">>, 90), Tk(<<"6">>, 20)>>),
                     !.lenient = Txt(<<"1", "6", " ">>)]

\* no token; the legacy reader's primary configuration reads "1,610"
EngLegacy == [EngBlank EXCEPT !.prim = Txt(<<"1", ",", "6", "1", "0">>)]

\* the primary reads "x", the fallback configuration "45."
EngFallback ==
    [EngBlank EXCEPT !.prim = Txt(<<"x">>), !.fb = Txt(<<"4", "5", ".">>)]

\* only the single-character configuration reads a digit
EngSingle == [EngBlank EXCEPT !.single = Txt(<<"7">>)]

\* a confident token that is not a number
EngGarbage == [EngBlank EXCEPT !.data = Data(<<Tk(<<"1", ".", "5">>, 90)>>)]

\* image_to_data raises; the legacy reader reads "3"
EngDataErr == [EngBlank EXCEPT !.data = DataErr, !.prim = Txt(<<"3">>)]

\* the legacy reader's primary configuration raises
EngPrimErr == [EngBlank EXCEPT !.prim = TxtErr, !.fb = Txt(<<"9">>)]

\* the data reader raises and the legacy reader times out after it
EngLateFail == [EngBlank EXCEPT !.data = DataErr, !.prim = Txt(<<"x">>),
                                !.fb = TxtErr, !.single = TxtErr]

\* a token reported with confidence -1; the lenient pass reads "6"
EngNoConf ==
    [EngBlank EXCEPT !.data = Data(<<Tk(<<"6">>, -1)>>),
                     !.lenient = Txt(<<"6">>)]

EngineOutcomes ==
    {EngBlank, EngFail, EngCvFail, EngConf12, EngRescue, EngLegacy,
     EngFallback, EngSingle, EngGarbage, EngDataErr, EngPrimErr, EngLateFail,
     EngNoConf}

ScoresNone == [k \in 1..Len(DefaultScales) |-> 30]

ScoresClear ==
    [k \in 1..Len(DefaultScales) |->
        IF k = 5 THEN 95 ELSE IF k \in {4, 6} THEN 80 ELSE 50]

IndexOf(name) == CHOOSE i \in 1..Len(BAND_ORDER) : BAND_ORDER[i] = name

\* the icons of the shards in shown are on the image, one row each
IconsFor(shown) ==
    [n \in ShardNames |->
        [scores |-> IF n \in shown THEN ScoresClear ELSE ScoresNone,
         x |-> 2,
         y |-> 2 + 13 * (IndexOf(n) - 1)]]

AllReads(e) == [n \in ShardNames |-> e]

Image(h, w, shown, reads) ==
    [h |-> h, w |-> w, icons |-> IconsFor(shown), reads |-> reads]

\* screenshots that differ in the icons shown
ImagesLoc ==
    {Image(70, 40, shown, AllReads(e)) :
        shown \in SUBSET ShardNames, e \in {EngBlank, EngConf12}}
    \cup {Image(3, 3, {}, AllReads(EngBlank)),
          Image(3, 3, ShardNames, AllReads(EngConf12))}

\* screenshots that differ in what is read in one region
ImagesRead ==
    {Image(70, 40, shown, [AllReads(b) EXCEPT ![n] = e]) :
        shown \in {ShardNames}, b \in {EngBlank, EngConf12},
        n \in ShardNames, e \in EngineOutcomes}

Images == ImagesLoc \cup ImagesRead

PinImages ==
    {Image(70, 40, ShardNames, AllReads(EngConf12)),
     Image(70, 40, {"Mystery", "Ancient", "Void"}, AllReads(EngConf12))}

\* the screenshots read a second time with one region changed
TwinBases ==
    {Image(70, 40, shown, AllReads(e)) :
        shown \in {{}, ShardNames, {"Mystery", "Void", "Sacred"}},
        e \in {EngBlank, EngConf12}}

DiskAll == [n \in ShardNames |-> "ok"]

DiskChoices ==
    {DiskAll,
     [DiskAll EXCEPT !["Sacred"] = "missing"],
     [DiskAll EXCEPT !["Void"] = "unreadable", !["Primal"] = "missing",
                     !["Sacred"] = "missing"],
     [n \in ShardNames |-> "missing"]}

NoResult == [raised |-> FALSE, counts |-> [n \in {} |-> 0], bands |-> <<>>]

NoImage == Image(1, 1, {}, AllReads(EngBlank))

-----------------------------------------------------------------------------
(* cogs/shards/ocr.py: the number-only reader of the left rail.  A         *)
(* screenshot handed to it is a record                                     *)
(*   [decodable, w, h, prepErr, invertErr, seen, fail, micro, microFail]:  *)
(*   whether Image.open accepts the bytes; the size after exif_transpose;  *)
(*   whether Pillow raises in _preprocess_roi / in ImageOps.invert; the    *)
(*   rows image_to_data answers on the whole crop (seen), each with the    *)
(*   crops, passes, candidate images and configurations that show it; the  *)
(*   calls <<ratio, pass, candidate, config>> that raise (fail); and the   *)
(*   same two for the per-band pass (micro, microFail).                    *)

\* the order list of _read_counts_from_roi_impl
order == BAND_ORDER

\* the crop widths tried, in hundredths, in the order they are tried
ratios == <<38, 42, 46>>

Modes == {"primary", "fallback"}

\* the candidate images of one pass, in the order they are scanned
CandidateLabels == <<"bin", "bin_inv", "gray">>

MicroLabels == <<"bin", "gray">>

\* the two configurations of a pass, by position in cfgs
CfgIdx == 1..2

\* a variant whose thresholds belong to the lower interval
_scale_if_small_upto(w, h) ==
    IF w <= 900 THEN 20 ELSE IF w <= 1300 THEN 15 ELSE 10

(* ocr._scale_if_small, in tenths                                          *)
_scale_if_small(w, h) == IF w < 900 THEN 20 ELSE IF w < 1300 THEN 15 ELSE 10

\* the size the entry points work on: int(width * scale), int(height * scale)
BaseSize(s) ==
    LET scale == _scale_if_small(s.w, s.h)
    IN  [w |-> (s.w * scale) \div 10, h |-> (s.h * scale) \div 10]

(* ocr._left_rail_crop: the size of the crop                               *)
_left_rail_crop(base, ratio) ==
    [w |-> Max2(1, Min2(base.w, (base.w * ratio) \div 100)), h |-> base.h]

(* ocr._NUM_RE: ^\d{1,5}(?:[.,\s]\d{3})*$                                  *)
RECURSIVE NumGroups(_)
NumGroups(t) ==
    \/ t = <<>>
    \/ /\ Len(t) >= 4
       /\ t[1] \in {".", ","} \cup WhiteChars
       /\ IsDigitStr(SubSeq(t, 2, 4))
       /\ NumGroups(SubSeq(t, 5, Len(t)))

_NUM_RE(t) ==
    \E k \in 1..Min2(5, Len(t)) :
        /\ IsDigitStr(SubSeq(t, 1, k))
        /\ NumGroups(SubSeq(t, k + 1, Len(t)))

\* the filter both passes apply to a normalised token
NumericToken(t) == _NUM_RE(t) \/ IsDigitStr(t)

(* ocr._OcrToken                                                           *)
_OcrToken(left, top, width, height, conf, text, source) ==
    [left |-> left, top |-> top, width |-> width, height |-> height,
     conf |-> conf, text |-> text, source |-> source]

TokRight(t) == t.left + t.width

TokBottom(t) == t.top + t.height

TokCx(t) == t.left + t.width \div 2

TokCy(t) == t.top + t.height \div 2

\* _rounded_token_key's _r: int(round(v / step) * step), round half to even
RoundStep(v, step) ==
    LET q == v \div step
        rem == v % step
    IN  IF 2 * rem < step THEN step * q
        ELSE IF 2 * rem > step THEN step * (q + 1)
        ELSE IF q % 2 = 0 THEN step * q
        ELSE step * (q + 1)

TokenKeyStep == 4

(* ocr._rounded_token_key                                                  *)
_rounded_token_key(t) ==
    <<RoundStep(t.left, TokenKeyStep), RoundStep(t.top, TokenKeyStep),
      RoundStep(t.width, TokenKeyStep), RoundStep(t.height, TokenKeyStep),
      t.text>>

(* ocr._score_band_token                                                   *)
_score_band_token(txt, conf) ==
    <<Len(RemoveChars(_normalize_digits(txt), {",", ".", " "})), conf>>

\* Python's > on the score tuples
ScoreGt(a, b) == a[1] > b[1] \/ (a[1] = b[1] /\ a[2] > b[2])

\* the source string of a pick: pass, image, configuration, micro flag
Source(mode, label, cfg, micro) ==
    [mode |-> mode, img |-> label, cfg |-> cfg, micro |-> micro]

\* pytesseract.image_to_data on a candidate image of the crop
ImageToData(s, r, mode, label, cfg) ==
    IF <<r, mode, label, cfg>> \in s.fail
    THEN [err |-> TRUE, toks |-> <<>>]
    ELSE [err |-> FALSE,
          toks |-> SelectSeq(s.seen, LAMBDA d :
                      /\ r \in d.r
                      /\ mode \in d.mode
                      /\ label \in d.cand
                      /\ cfg \in d.cfg)]

\* pytesseract.image_to_data on a candidate image of one band's sub-crop
MicroData(s, r, mode, band, label, cfg) ==
    IF <<r, mode, band, label, cfg>> \in s.microFail
    THEN [err |-> TRUE, toks |-> <<>>]
    ELSE [err |-> FALSE,
          toks |-> SelectSeq(s.micro, LAMBDA d :
                      /\ d.band = band
                      /\ r \in d.r
                      /\ mode \in d.mode
                      /\ label \in d.cand
                      /\ cfg \in d.cfg)]

\* the lowest confidence the whole-crop scan keeps
MinScanConf == 18

\* the lowest confidence the per-band pass keeps
MinMicroConf == 10

\* the size of token_map at which the scan stops trying candidate images
TokenMapFull == 8

\* the body of the scan's inner loop: one row of dd goes into token_map
\* (kept in insertion order, as a dict is), or is dropped
PutToken(token_map, d, max_x, source) ==
    LET raw == Strip(d.text)
        txt == _normalize_digits(raw)
        token == _OcrToken(d.left, d.top, d.width, d.height, d.conf, txt,
                           source)
        key == _rounded_token_key(token)
        at == {i \in 1..Len(token_map) : token_map[i].key = key}
    IN  IF raw = <<>> THEN token_map
        ELSE IF ~NumericToken(txt) THEN token_map
        ELSE IF d.conf < MinScanConf THEN token_map
        ELSE IF TokCx(token) > max_x THEN token_map
        ELSE IF at = {}
             THEN Append(token_map, [key |-> key, tok |-> token])
             ELSE LET i == CHOOSE i \in at : TRUE
                  IN  IF d.conf > token_map[i].tok.conf
                      THEN [token_map EXCEPT ![i].tok = token]
                      ELSE token_map

RECURSIVE PutTokens(_, _, _, _, _)
PutTokens(token_map, toks, i, max_x, source) ==
    IF i > Len(toks) THEN token_map
    ELSE PutTokens(PutToken(token_map, toks[i], max_x, source), toks, i + 1,
                   max_x, source)

\* one image_to_data call of the scan; an exception skips the call
ScanCfg(s, r, mode, label, cfg, token_map, max_x) ==
    LET dd == ImageToData(s, r, mode, label, cfg)
    IN  IF dd.err THEN token_map
        ELSE PutTokens(token_map, dd.toks, 1, max_x,
                       Source(mode, label, cfg, FALSE))

\* the scan over the candidate images, from the i-th on; ScanBreak is the
\* end of the loop body: "if len(token_map) >= 8: break"
RECURSIVE ScanCandidates(_, _, _, _, _, _, _)
RECURSIVE ScanBreak(_, _, _, _, _, _, _)
ScanBreak(s, r, mode, candidates, i, token_map, max_x) ==
    IF Len(token_map) >= TokenMapFull THEN token_map
    ELSE ScanCandidates(s, r, mode, candidates, i + 1, token_map, max_x)

ScanCandidates(s, r, mode, candidates, i, token_map, max_x) ==
    IF i > Len(candidates) THEN token_map
    ELSE ScanBreak(s, r, mode, candidates, i,
                   ScanCfg(s, r, mode, candidates[i], 2,
                           ScanCfg(s, r, mode, candidates[i], 1, token_map,
                                   max_x),
                           max_x),
                   max_x)

\* sorted(tokens, key=lambda t: t.left): a stable sort
RECURSIVE InsertByLeft(_, _)
InsertByLeft(sorted, t) ==
    IF sorted = <<>> THEN <<t>>
    ELSE IF sorted[Len(sorted)].left <= t.left THEN Append(sorted, t)
    ELSE Append(InsertByLeft(SubSeq(sorted, 1, Len(sorted) - 1), t),
                sorted[Len(sorted)])

RECURSIVE SortByLeft(_)
SortByLeft(tokens) ==
    IF tokens = <<>> THEN <<>>
    ELSE InsertByLeft(SortByLeft(SubSeq(tokens, 1, Len(tokens) - 1)),
                      tokens[Len(tokens)])

\* the body of _merge_band_tokens' loop
MergeStep(merged, t) ==
    IF merged = <<>> THEN <<t>>
    ELSE
      LET prev == merged[Len(merged)]
          gap == t.left - TokRight(prev)
          overlap == Min2(TokRight(prev), TokRight(t)) - Max2(prev.left, t.left)
          min_width == Max2(1, Min2(prev.width, t.width))
          best == IF ScoreGt(_score_band_token(t.text, t.conf),
                             _score_band_token(prev.text, prev.conf))
                  THEN t ELSE prev
          max_gap == Max2(2, min_width \div 2)
          new_left == Min2(prev.left, t.left)
          new_top == Min2(prev.top, t.top)
          new_right == Max2(TokRight(prev), TokRight(t))
          new_bottom == Max2(TokBottom(prev), TokBottom(t))
      IN  IF gap < 0 /\ overlap >= (6 * min_width) \div 10
          THEN [merged EXCEPT ![Len(merged)] =
                   [best EXCEPT !.conf = Max2(prev.conf, t.conf)]]
          ELSE IF gap <= max_gap
          THEN [merged EXCEPT ![Len(merged)] =
                   _OcrToken(new_left, new_top, new_right - new_left,
                             new_bottom - new_top, Min2(prev.conf, t.conf),
                             prev.text \o t.text, prev.source)]
          ELSE Append(merged, t)

RECURSIVE MergeFrom(_, _, _)
MergeFrom(merged, sorted, i) ==
    IF i > Len(sorted) THEN merged
    ELSE MergeFrom(MergeStep(merged, sorted[i]), sorted, i + 1)

(* ocr._merge_band_tokens                                                  *)
_merge_band_tokens(tokens) == MergeFrom(<<>>, SortByLeft(tokens), 1)

\* a pick (text, conf, source), or None
Pick(text, conf, source) ==
    [none |-> FALSE, text |-> text, conf |-> conf, source |-> source]

NoPick == [none |-> TRUE, text |-> <<>>, conf |-> -1,
           source |-> Source("", "", 0, FALSE)]

\* the score of (pick or ("", -1.0))
PickScore(p) == _score_band_token(p.text, p.conf)

\* max(picks, key=...): the first of the picks no other beats
RECURSIVE MaxPick(_, _, _)
MaxPick(picks, i, best) ==
    IF i > Len(picks) THEN best
    ELSE MaxPick(picks, i + 1,
                 IF ScoreGt(PickScore(picks[i]), PickScore(best))
                 THEN picks[i] ELSE best)

\* None if there is no pick, else the best of them
BestPick(picks) ==
    IF picks = <<>> THEN NoPick ELSE MaxPick(picks, 2, picks[1])

\* the configurations of the per-band pass
MicroCfgs(mode) == IF mode = "fallback" THEN <<1, 2>> ELSE <<1>>

\* the picks one image_to_data call of the per-band pass adds
MicroPicks(s, r, mode, band, label, cfg) ==
    LET dd2 == MicroData(s, r, mode, band, label, cfg)
        kept == SelectSeq(dd2.toks, LAMBDA d :
                   /\ Strip(d.text) # <<>>
                   /\ NumericToken(_normalize_digits(Strip(d.text)))
                   /\ d.conf >= MinMicroConf)
    IN  IF dd2.err THEN <<>>
        ELSE [j \in 1..Len(kept) |->
                 Pick(_normalize_digits(Strip(kept[j].text)), kept[j].conf,
                      Source(mode, label, cfg, TRUE))]

RECURSIVE MicroOverCfgs(_, _, _, _, _, _)
MicroOverCfgs(s, r, mode, band, label, k) ==
    IF k > Len(MicroCfgs(mode)) THEN <<>>
    ELSE MicroPicks(s, r, mode, band, label, MicroCfgs(mode)[k])
           \o MicroOverCfgs(s, r, mode, band, label, k + 1)

(* ocr._run_psm7_band_pass on one band's sub-crop                          *)
_run_psm7_band_pass(s, r, mode, band) ==
    BestPick(MicroOverCfgs(s, r, mode, band, MicroLabels[1], 1)
               \o MicroOverCfgs(s, r, mode, band, MicroLabels[2], 1))

\* the tokens of token_map whose centre is in the band: y0 <= cy < y1 with
\* y0 = band * (H / 5.0)
BandTokens(token_map, band, H) ==
    SelectSeq([i \in 1..Len(token_map) |-> token_map[i].tok], LAMBDA t :
        band * H <= 5 * TokCy(t) /\ 5 * TokCy(t) < (band + 1) * H)

\* main_pick: the best of the band's merged tokens
MainPick(cands) ==
    BestPick([i \in 1..Len(cands) |->
                 Pick(cands[i].text, cands[i].conf, cands[i].source)])

\* best_pick of the two.  The comparison unpacks a pick, a 3-tuple, into
\* the two parameters of _score_band_token: a TypeError unless both picks
\* are None.
ComparePicks(main_pick, micro_pick) ==
    IF ~micro_pick.none \/ ~main_pick.none
    THEN [raised |-> TRUE, pick |-> NoPick]
    ELSE [raised |-> FALSE,
          pick |-> IF ScoreGt(PickScore(micro_pick), PickScore(main_pick))
                   THEN micro_pick ELSE main_pick]

\* the body of the band loop of _read_counts_from_roi_impl: the band's pick
BandPick(s, r, mode, band, token_map, H) ==
    ComparePicks(MainPick(_merge_band_tokens(BandTokens(token_map, band, H))),
                 _run_psm7_band_pass(s, r, mode, band))

\* what a call of the reader gives: counts, score, or an exception
RoiRead(counts, score) == [raised |-> FALSE, counts |-> counts, score |-> score]

RoiRaised == [raised |-> TRUE, counts |-> [n \in {} |-> 0], score |-> 0]

\* counts_by_band of the picks, the counts and the score made from it
CountsByBand(bp) ==
    [b \in DOMAIN bp |->
        IF bp[b].pick.none THEN 0 ELSE _parse_num_token(bp[b].pick.text)]

CountsAndScore(counts_by_band) ==
    RoiRead([n \in ShardNames |-> Max2(0, counts_by_band[IndexOf(n) - 1])],
            Cardinality({b \in DOMAIN counts_by_band : counts_by_band[b] > 0}))

\* the band loop and what follows it
ReadBands(bp) ==
    IF \E b \in DOMAIN bp : bp[b].raised THEN RoiRaised
    ELSE CountsAndScore(CountsByBand(bp))

\* the band loop's picks
BandPicks(s, r, mode, token_map, H) ==
    [b \in 0..(Len(order) - 1) |-> BandPick(s, r, mode, b, token_map, H)]

(* ocr._read_counts_from_roi_impl on the crop roi (its size) of ratio r    *)
_read_counts_from_roi_impl(s, roi, r, mode) ==
    IF s.prepErr THEN RoiRaised
    ELSE ReadBands(BandPicks(s, r, mode,
             ScanCandidates(s, r, mode,
                 IF s.invertErr
                 THEN <<CandidateLabels[1], CandidateLabels[3]>>
                 ELSE CandidateLabels,
                 1, <<>>, (roi.w * 6) \div 10),
             roi.h))

\* _read_counts_from_roi's choice between the two passes
ChoosePass(primary, fallback) ==
    IF primary.raised THEN RoiRaised
    ELSE IF primary.score > 0 THEN primary
    ELSE IF fallback.raised THEN RoiRaised
    ELSE IF fallback.score > primary.score THEN fallback
    ELSE primary

(* ocr._read_counts_from_roi                                               *)
_read_counts_from_roi(s, roi, r) ==
    ChoosePass(_read_counts_from_roi_impl(s, roi, r, "primary"),
               _read_counts_from_roi_impl(s, roi, r, "fallback"))

\* the body of the loop over the crop widths: "if score > best_score"
KeepBetter(best, got, ratio) ==
    IF got.score > best.score
    THEN [raised |-> FALSE, counts |-> got.counts, score |-> got.score,
          ratio |-> ratio]
    ELSE best

\* the loop over the crop widths, from the i-th on: best counts, score, ratio
RECURSIVE BestOverRatios(_, _, _)
RECURSIVE BestStep(_, _, _, _)
BestStep(s, i, best, got) ==
    IF got.raised THEN [best EXCEPT !.raised = TRUE]
    ELSE BestOverRatios(s, i + 1, KeepBetter(best, got, ratios[i]))

BestOverRatios(s, i, best) ==
    IF i > Len(ratios) THEN best
    ELSE BestStep(s, i, best,
                  _read_counts_from_roi(s, _left_rail_crop(BaseSize(s), ratios[i]),
                                        i))

\* the three entry points' common body: what an exception-free run gives
BestStart ==
    [raised |-> FALSE, counts |-> [n \in {} |-> 0], score |-> -1,
     ratio |-> ratios[1]]

ReadBest(s) ==
    IF ~s.decodable THEN [BestStart EXCEPT !.raised = TRUE]
    ELSE BestOverRatios(s, 1, BestStart)

\* best_counts.setdefault(st, 0) for every shard type
WithDefaults(counts) ==
    [n \in ShardNames |-> IF n \in DOMAIN counts THEN counts[n] ELSE 0]

RECURSIVE SumCounts(_, _)
SumCounts(counts, names) ==
    IF names = {} THEN 0
    ELSE LET n == CHOOSE n \in names : TRUE
         IN  counts[n] + SumCounts(counts, names \ {n})

\* what an entry point hands back: an exception, None, or counts with the
\* debug images' names, the score and the ratio
OcrResult(raised, none, counts, dbg, score, ratio) ==
    [raised |-> raised, none |-> none, counts |-> counts, dbg |-> dbg,
     score |-> score, ratio |-> ratio]

EmptyCounts == [n \in {} |-> 0]

OcrEmpty == OcrResult(FALSE, FALSE, EmptyCounts, <<>>, 0, 0)

OcrNone == OcrResult(FALSE, TRUE, EmptyCounts, <<>>, 0, 0)

OcrRaised == OcrResult(TRUE, FALSE, EmptyCounts, <<>>, 0, 0)

\* the end of extract_counts_from_image_bytes without the "no OCR" signal
CountsKept(best_counts) ==
    OcrResult(FALSE, FALSE, best_counts, <<>>, 0, 0)

\* the end of extract_counts_from_image_bytes: {} if everything is zero
CountsOrEmpty(best_counts) ==
    IF SumCounts(best_counts, ShardNames) = 0 THEN OcrEmpty
    ELSE OcrResult(FALSE, FALSE, best_counts, <<>>, 0, 0)

\* the try block returning best_counts whatever their sum
TryCountsUnlessRaised(best) ==
    IF best.raised THEN OcrEmpty
    ELSE OcrResult(FALSE, FALSE, WithDefaults(best.counts), <<>>, 0, 0)

\* the try block without the except
TryCountsUnguarded(best) ==
    IF best.raised THEN OcrRaised
    ELSE CountsOrEmpty(WithDefaults(best.counts))

\* extract_counts_from_image_bytes' try block and its except
TryCounts(best) ==
    IF best.raised THEN OcrEmpty
    ELSE CountsOrEmpty(WithDefaults(best.counts))

\* extract_counts_from_image_bytes ending as the debug entry points do, with
\* the five keys kept when every count is zero
extract_counts_keep_zeros(stack, s) ==
    IF ~stack THEN OcrEmpty
    ELSE TryCountsUnlessRaised(ReadBest(s))

(* ocr.extract_counts_from_image_bytes; stack: the OCR stack was imported  *)
extract_counts_from_image_bytes(stack, s) ==
    IF ~stack THEN OcrEmpty ELSE TryCounts(ReadBest(s))

\* extract_counts_with_debug's try block and its except
TryCountsWithDebug(s, best) ==
    IF s.prepErr THEN OcrEmpty
    ELSE IF best.raised THEN OcrEmpty
    ELSE OcrResult(FALSE, FALSE, WithDefaults(best.counts),
                   IF s.invertErr THEN <<"roi_gray.png", "roi_bin.png">>
                   ELSE <<"roi_gray.png", "roi_bin.png", "roi_bin_inv.png">>,
                   0, 0)

(* ocr.extract_counts_with_debug                                           *)
extract_counts_with_debug(stack, s) ==
    IF ~stack THEN OcrEmpty ELSE TryCountsWithDebug(s, ReadBest(s))

\* collect_debug_bundle's try block and its except
TryBundle(best) ==
    IF best.raised THEN OcrNone
    ELSE OcrResult(FALSE, FALSE, WithDefaults(best.counts), <<>>, best.score,
                   best.ratio)

(* ocr.collect_debug_bundle                                                *)
collect_debug_bundle(stack, s) ==
    IF ~stack THEN OcrNone ELSE TryBundle(ReadBest(s))

-----------------------------------------------------------------------------
(* The screenshots cogs/shards/ocr.py is called with.                      *)

CandidateSet == {CandidateLabels[i] : i \in 1..Len(CandidateLabels)}

AllScanCalls == (1..Len(ratios)) \X Modes \X CandidateSet \X CfgIdx

AllMicroCalls ==
    (1..Len(ratios)) \X Modes \X (0..(Len(order) - 1)) \X {"bin", "gray"}
        \X CfgIdx

\* every crop, pass, candidate image and configuration shows the row
Everywhere ==
    [r |-> 1..Len(ratios), mode |-> Modes, cand |-> CandidateSet,
     cfg |-> CfgIdx]

\* a row of image_to_data's answer: a 40 x 20 box in the band-th fifth of a
\* crop 500 high
Seen(text, conf, band, left, where) ==
    [text |-> text, conf |-> conf, left |-> left, top |-> band * 100 + 40,
     width |-> 40, height |-> 20, r |-> where.r, mode |-> where.mode,
     cand |-> where.cand, cfg |-> where.cfg]

\* a row of the per-band pass's answer
MicroSeen(text, conf, band, where) ==
    [band |-> band, text |-> text, conf |-> conf, r |-> where.r,
     mode |-> where.mode, cand |-> where.cand, cfg |-> where.cfg]

Shot(w, h, seen, micro) ==
    [decodable |-> TRUE, w |-> w, h |-> h, prepErr |-> FALSE,
     invertErr |-> FALSE, seen |-> seen, fail |-> {}, micro |-> micro,
     microFail |-> {}]

ShotBlank == Shot(1400, 500, <<>>, <<>>)

ShotFive ==
    Shot(1400, 500,
         [b \in 1..Len(order) |-> Seen(<<"1", "2">>, 90, b - 1, 100, Everywhere)],
         <<>>)

\* only the band-th counter is readable
ShotBand(band) ==
    Shot(1400, 500, <<Seen(<<"7">>, 90, band, 100, Everywhere)>>, <<>>)

\* the rows of s that lie in the band replaced
WithBand(s, band, rows) ==
    [s EXCEPT !.seen =
        SelectSeq(s.seen, LAMBDA d : d.top \div 100 # band) \o rows]

\* every engine call on the band's sub-crop raises
WithMicroFail(s, band) ==
    [s EXCEPT !.microFail = s.microFail \cup {c \in AllMicroCalls : c[3] = band}]

\* ways to change what is read in one band
BandChanges(s, band) ==
    {WithBand(s, band, <<>>),
     WithBand(s, band, <<Seen(<<"7">>, 90, band, 100, Everywhere)>>),
     WithBand(s, band, <<Seen(<<"7">>, 12, band, 100, Everywhere)>>),
     WithMicroFail(s, band)} \ {s}

ShotTwinBases ==
    {ShotBlank, ShotFive,
     [ShotFive EXCEPT !.fail = AllScanCalls, !.microFail = AllMicroCalls]}

Shots ==
    ShotTwinBases \cup
    {[ShotBlank EXCEPT !.decodable = FALSE],
     [ShotFive EXCEPT !.decodable = FALSE],
     [ShotBlank EXCEPT !.prepErr = TRUE],
     [ShotBlank EXCEPT !.invertErr = TRUE],
     [ShotBlank EXCEPT !.fail = AllScanCalls, !.microFail = AllMicroCalls],
     \* a token below the scan's confidence floor, another below the band
     \* pass's
     Shot(1400, 500, <<Seen(<<"1", "2">>, 17, 0, 100, Everywhere)>>,
          <<MicroSeen(<<"1", "2">>, 9, 0, Everywhere)>>),
     \* a token that is no number
     Shot(1400, 500, <<Seen(<<"1", ".", "5">>, 90, 1, 100, Everywhere)>>, <<>>),
     \* a grouped number
     Shot(1400, 500,
          <<Seen(<<"1", ",", "6", "1", "0">>, 90, 2, 100, Everywhere)>>, <<>>),
     \* a token right of every crop's left part
     Shot(1400, 500, <<Seen(<<"1", "2">>, 90, 3, 400, Everywhere)>>, <<>>),
     \* only the band pass reads the counter
     Shot(1400, 500, <<>>, <<MicroSeen(<<"3", "4">>, 50, 2, Everywhere)>>),
     \* only the aggressive pass reads the counter
     Shot(1400, 500,
          <<Seen(<<"8">>, 90, 4, 100, [Everywhere EXCEPT !.mode = {"fallback"}])>>,
          <<>>),
     \* small screenshots, scaled up before the crop
     Shot(700, 250, <<>>, <<>>),
     Shot(1000, 300, <<Seen(<<"5">>, 90, 0, 100, Everywhere)>>, <<>>)}

NoOcrTwin == [on |-> FALSE, at |-> "", res |-> OcrEmpty]

OcrOff ==
    /\ ocrStack = TRUE
    /\ shot = ShotBlank
    /\ ocrCall = "none"
    /\ ocrRes = OcrEmpty
    /\ ocrTwin = NoOcrTwin
    /\ ocrPc = "off"

\* nothing remembered yet; again: pin has been read a second time
NoPinRes == [valid |-> FALSE, res |-> NoResult, again |-> FALSE]

NoTwin == [on |-> FALSE, at |-> "", counts |-> [n \in {} |-> 0]]

Threads == {"t1", "t2"}

ThreadIdle ==
    [pc |-> "idle", entry |-> "none", image |-> NoImage, tpl |-> NoTemplates]

ThrOff ==
    /\ thr = [t \in Threads |-> ThreadIdle]
    /\ writes = 0

\* a crop: its height, its width and its channels (1: a 2-D array)
Crop(h, w, ch) == [h |-> h, w |-> w, ch |-> ch]

\* what a preprocessor hands back: an exception, or the image
PrepOut(raised, image) == [raised |-> raised, image |-> image]

NoPrep ==
    [pc |-> "idle", fn |-> "none", crop |-> Crop(0, 0, 1), band |-> "",
     cvErr |-> FALSE, out |-> PrepOut(FALSE, Crop(0, 0, 1))]

PrepOff == prep = NoPrep

NoSplit ==
    [pc |-> "idle", fn |-> "none", h |-> 0, w |-> 0, cy |-> 0, rois |-> <<>>,
     bands |-> {}]

SplitOff == split = NoSplit

NoCog ==
    [pc |-> "idle", flow |-> "none", counts |-> <<>>, children |-> <<>>,
     parsed |-> <<>>, saved |-> FALSE, snapshot |-> <<>>, reply |-> "none"]

CogOff == cog = NoCog

NoScale == [pc |-> "idle", w |-> 0, h |-> 0, scale |-> 0, base |-> <<>>]

ScaleOff == scal = NoScale

NoName == <<"-">>

NoToggles ==
    [pc |-> "idle", defaults |-> <<>>, overrides |-> <<>>, toggles |-> <<>>,
     lastDefaults |-> <<>>, lastOverrides |-> <<>>, calls |-> 0,
     name |-> NoName, enabled |-> FALSE, got |-> <<>>]

FeatOff == feat = NoToggles

NoRescale ==
    [pc |-> "idle", image |-> <<>>, factor |-> 0, regions |-> <<>>,
     first |-> <<>>, regions2 |-> <<>>, second |-> <<>>]

ResOff == rsl = NoRescale

NoTess ==
    [pc |-> "idle", band |-> "none", empty |-> FALSE,
     eng |-> [prim |-> Txt(<<>>), fb |-> Txt(<<>>), single |-> Txt(<<>>)],
     calls |-> <<>>, text |-> <<>>]

TessOff == tess = NoTess

NoReadInt ==
    [pc |-> "idle", eng |-> EngBlank, all |-> <<>>, strict |-> <<>>,
     lenientRun |-> FALSE, cand_a |-> <<>>, conf_a |-> FracZero,
     cand_b |-> <<>>, conf_b |-> FracZero,
     out |-> IntRead(0, FracZero, <<>>)]

ReadIntOff == rint = NoReadInt

NoMatch ==
    [pc |-> "idle", image |-> <<>>, templates |-> <<>>, hits |-> <<>>]

MatchOff == mtch = NoMatch

NoPass ==
    [pc |-> "idle", shot |-> ShotBlank, r |-> 1, ran |-> <<>>,
     primary |-> RoiRaised, fallback |-> RoiRaised, from |-> "none",
     out |-> RoiRaised]

PassOff == pas = NoPass

NoRois ==
    [pc |-> "idle", image |-> [h |-> 0, w |-> 0], hits |-> <<>>, out |-> <<>>]

RoisOff == nroi = NoRois

NoClaim ==
    [CLAIM_STATE |-> "none", first |-> "none", firstShown |-> FALSE,
     views |-> [m \in {"prompt", "followup", "review", "retry"} |-> "none"],
     announced |-> 0, said |-> "none"]

ClaimOff == clm = NoClaim

NoLevel ==
    [entry |-> FALSE, roles |-> {}, task |-> "none", sending |-> {},
     levels |-> <<>>, added |-> {}, given |-> {}]

LevelOff == lvl = NoLevel

NoGroup ==
    [entry |-> FALSE, items |-> <<>>, task |-> 0, tasks |-> <<>>,
     flight |-> <<>>, praise |-> <<>>]

GroupOff == grp = NoGroup

NoWatch ==
    [now |-> 0, ticked |-> TRUE, link |-> "up", downSince |-> 0,
     BOT_CONNECTED |-> FALSE, _LAST_DISCONNECT_TS |-> 0, _LAST_EVENT_TS |-> 0,
     restarted |-> "no"]

WatchOff == wd = NoWatch

\* counts together with the number of the OCR call that made them (0: none)
NoCounts == [vals |-> <<>>, run |-> 0]

NoPanel ==
    [prompt |-> "none", shot |-> <<>>, stack |-> FALSE, cache |-> NoCounts,
     runs |-> 0, panel |-> "none", owner |-> "none", counts |-> NoCounts,
     preview |-> NoCounts, modal |-> "none", prefill |-> NoCounts,
     children |-> <<>>, saves |-> 0, snapshot |-> <<>>,
     last |-> [user |-> "none", button |-> "none"]]

PanelOff == pan = NoPanel

MiniOff == PrepOff /\ SplitOff /\ CogOff /\ ScaleOff /\ FeatOff /\ ResOff /\ TessOff /\ ReadIntOff /\ MatchOff /\ PassOff /\ RoisOff /\ ClaimOff /\ LevelOff /\ GroupOff /\ WatchOff /\ PanelOff

PipeOff ==
    /\ disk = DiskAll
    /\ cacheSet = FALSE
    /\ cacheTpl = NoTemplates
    /\ loads = 0
    /\ call = "none"
    /\ img = NoImage
    /\ regions = <<>>
    /\ res = NoResult
    /\ pin = NoImage
    /\ pinRes = NoPinRes
    /\ twin = NoTwin
    /\ pipePc = "off"

-----------------------------------------------------------------------------
(* Inputs of the normalisers.                                              *)

\* longest digit string rendered with grouping separators
MaxDigits == 4

\* longest raw token
MaxTokLen == 2

DigitAlphabet == {"0", "1", "6"}

TokenAlphabet == {"0", "1", ",", ".", " ", "l", "O", "x"}

StringsOver(A, n) == UNION {[1..k -> A] : k \in 0..n}

\* d with sp inserted before every group of three digits counted from the
\* right ("1610" -> "1,610"); sp = "" renders d itself
RECURSIVE Grouped(_, _)
Grouped(d, sp) ==
    IF Len(d) <= 3 \/ sp = "" THEN d
    ELSE Grouped(SubSeq(d, 1, Len(d) - 3), sp) \o <<sp>>
            \o SubSeq(d, Len(d) - 2, Len(d))

NormInit ==
    /\ tok = <<>>
    /\ dsrc = <<>>
    /\ sep = ""
    /\ normPc = "input"
    /\ normCount = NoneVal
    /\ parseNum = 0

\* a digit string, rendered with one of the grouping separators or bare
ChooseGrouped ==
    /\ normPc = "input"
    /\ \E d \in StringsOver(DigitAlphabet, MaxDigits) \ {<<>>} :
       \E sp \in {"", ",", ".", " "} :
          /\ dsrc' = d
          /\ sep' = sp
          /\ tok' = Grouped(d, sp)
    /\ normPc' = "chosen"
    /\ UNCHANGED <<normCount, parseNum, notNorm>>

\* any short token of the OCR alphabet
ChooseRaw ==
    /\ normPc = "input"
    /\ \E t \in StringsOver(TokenAlphabet, MaxTokLen) :
          /\ tok' = t
          /\ dsrc' = <<>>
          /\ sep' = ""
    /\ normPc' = "chosen"
    /\ UNCHANGED <<normCount, parseNum, notNorm>>

\* both normalisers applied to the token
Normalize ==
    /\ normPc = "chosen"
    /\ normCount' = normalize_count(tok)
    /\ parseNum' = _parse_num_token(tok)
    /\ normPc' = "done"
    /\ UNCHANGED <<tok, dsrc, sep, notNorm>>

NormReset ==
    /\ normPc = "done"
    /\ normPc' = "input"
    /\ tok' = <<>>
    /\ dsrc' = <<>>
    /\ sep' = ""
    /\ normCount' = NoneVal
    /\ parseNum' = 0
    /\ UNCHANGED notNorm

NormNext == ChooseGrouped \/ ChooseRaw \/ Normalize \/ NormReset

\* the state SpecNorm starts in: the other parts of the model stay off
NormStart == NormInit /\ PipeOff /\ OcrOff /\ ThrOff /\ MiniOff

SpecNorm == NormStart /\ [][NormNext]_vars

NormOff ==
    /\ tok = <<>>
    /\ dsrc = <<>>
    /\ sep = ""
    /\ normPc = "off"
    /\ normCount = NoneVal
    /\ parseNum = 0

-----------------------------------------------------------------------------
(* SpecPipe: ocr_pipeline's entry points called one after the other in one *)
(* process whose asset directory does not change.                          *)

PipeInit ==
    /\ disk \in DiskChoices
    /\ cacheSet = FALSE
    /\ cacheTpl = NoTemplates
    /\ loads = 0
    /\ call = "none"
    /\ img = NoImage
    /\ regions = <<>>
    /\ res = NoResult
    /\ pin \in PinImages
    /\ pinRes = NoPinRes
    /\ twin = NoTwin
    /\ pipePc = "idle"

\* the caller hands the next screenshot to one of the entry points
NewCall ==
    /\ pipePc = "idle"
    /\ \E image \in Images :
       \E entry \in {"read_counters", "find_counter_rois_with_boxes"} :
          /\ entry = "find_counter_rois_with_boxes" => image \in ImagesLoc
          /\ img' = image
          /\ call' = entry
    /\ pipePc' = "called"
    /\ UNCHANGED <<disk, cacheSet, cacheTpl, loads, regions, res, pin, pinRes,
                   twin, notPipe>>

\* the caller hands read_counters the screenshot it has just read, with
\* other engine answers for one of its regions
NewTwinCall ==
    /\ pipePc = "returned"
    /\ call = "read_counters"
    /\ ~twin.on
    /\ ~res.raised
    /\ img \in TwinBases
    /\ \E n \in ShardNames : \E e \in EngineOutcomes :
          /\ e # img.reads[n]
          /\ img' = [img EXCEPT !.reads[n] = e]
          /\ twin' = [on |-> TRUE, at |-> n, counts |-> res.counts]
    /\ pipePc' = "called"
    /\ UNCHANGED <<disk, cacheSet, cacheTpl, loads, call, regions, res, pin,
                   pinRes, notPipe>>

\* read_counters(img)
CallReadCounters ==
    /\ pipePc = "called"
    /\ call = "read_counters"
    /\ cacheTpl' = TemplatesFor(cacheSet, cacheTpl, disk)
    /\ loads' = IF cacheSet THEN loads ELSE loads + 1
    /\ cacheSet' = TRUE
    /\ regions' = find_counter_rois(img, cacheTpl')
    /\ res' = read_counters(img, regions')
    /\ IF img = pin /\ ~pinRes.valid
       THEN pinRes' = [valid |-> TRUE, res |-> res', again |-> FALSE]
       ELSE IF img = pin
       THEN pinRes' = [pinRes EXCEPT !.again = TRUE]
       ELSE pinRes' = pinRes
    /\ pipePc' = "returned"
    /\ UNCHANGED <<disk, call, img, pin, twin, notPipe>>

\* find_counter_rois_with_boxes(img)
CallFindWithBoxes ==
    /\ pipePc = "called"
    /\ call = "find_counter_rois_with_boxes"
    /\ cacheTpl' = TemplatesFor(cacheSet, cacheTpl, disk)
    /\ loads' = IF cacheSet THEN loads ELSE loads + 1
    /\ cacheSet' = TRUE
    /\ regions' = find_counter_rois_with_boxes(img, cacheTpl')
    /\ res' = NoResult
    /\ pipePc' = "returned"
    /\ UNCHANGED <<disk, call, img, pin, pinRes, twin, notPipe>>

\* the caller takes the result
PipeReturn ==
    /\ pipePc = "returned"
    /\ pipePc' = "idle"
    /\ call' = "none"
    /\ img' = NoImage
    /\ regions' = <<>>
    /\ res' = NoResult
    /\ twin' = NoTwin
    /\ UNCHANGED <<disk, cacheSet, cacheTpl, loads, pin, pinRes, notPipe>>

PipeNext ==
    \/ NewCall
    \/ NewTwinCall
    \/ CallReadCounters
    \/ CallFindWithBoxes
    \/ PipeReturn

\* the state SpecPipe starts in: the other parts of the model stay off
PipeStart == PipeInit /\ NormOff /\ OcrOff /\ ThrOff /\ MiniOff

SpecPipe == PipeStart /\ [][PipeNext]_vars

-----------------------------------------------------------------------------
(* Calls of the entry points of cogs/shards/ocr.py, one after the other.   *)

OcrEntries ==
    {"extract_counts_from_image_bytes", "extract_counts_with_debug",
     "collect_debug_bundle"}

OcrInit ==
    /\ ocrStack \in BOOLEAN
    /\ shot = ShotBlank
    /\ ocrCall = "none"
    /\ ocrRes = OcrEmpty
    /\ ocrTwin = NoOcrTwin
    /\ ocrPc = "idle"

\* the cog hands an attachment's bytes to one of the entry points
OcrNewCall ==
    /\ ocrPc = "idle"
    /\ shot' \in Shots
    /\ ocrCall' \in OcrEntries
    /\ ocrPc' = "called"
    /\ UNCHANGED <<ocrStack, ocrRes, ocrTwin, notOcr>>

\* the same entry point is handed the screenshot it has just read, with
\* something else read in one band
OcrNewTwinCall ==
    /\ ocrPc = "returned"
    /\ ~ocrTwin.on
    /\ shot \in ShotTwinBases
    /\ \E b \in 0..(Len(order) - 1) : \E alt \in BandChanges(shot, b) :
          /\ shot' = alt
          /\ ocrTwin' = [on |-> TRUE, at |-> order[b + 1], res |-> ocrRes]
    /\ ocrPc' = "called"
    /\ UNCHANGED <<ocrStack, ocrCall, ocrRes, notOcr>>

\* a debug entry point is handed the bytes the primary entry point has just
\* read (the cog's debug run on the attachment it scans)
OcrDebugCall ==
    /\ ocrPc = "returned"
    /\ ocrCall = "extract_counts_from_image_bytes"
    /\ ~ocrTwin.on
    /\ ocrCall' \in {"extract_counts_with_debug", "collect_debug_bundle"}
    /\ ocrTwin' = [on |-> TRUE, at |-> "debug", res |-> ocrRes]
    /\ ocrPc' = "called"
    /\ UNCHANGED <<ocrStack, shot, ocrRes, notOcr>>

CallExtractCounts ==
    /\ ocrPc = "called"
    /\ ocrCall = "extract_counts_from_image_bytes"
    /\ ocrRes' = extract_counts_from_image_bytes(ocrStack, shot)
    /\ ocrPc' = "returned"
    /\ UNCHANGED <<ocrStack, shot, ocrCall, ocrTwin, notOcr>>

CallExtractWithDebug ==
    /\ ocrPc = "called"
    /\ ocrCall = "extract_counts_with_debug"
    /\ ocrRes' = extract_counts_with_debug(ocrStack, shot)
    /\ ocrPc' = "returned"
    /\ UNCHANGED <<ocrStack, shot, ocrCall, ocrTwin, notOcr>>

CallCollectDebugBundle ==
    /\ ocrPc = "called"
    /\ ocrCall = "collect_debug_bundle"
    /\ ocrRes' = collect_debug_bundle(ocrStack, shot)
    /\ ocrPc' = "returned"
    /\ UNCHANGED <<ocrStack, shot, ocrCall, ocrTwin, notOcr>>

\* the cog takes the result
OcrReturn ==
    /\ ocrPc = "returned"
    /\ ocrPc' = "idle"
    /\ shot' = ShotBlank
    /\ ocrCall' = "none"
    /\ ocrRes' = OcrEmpty
    /\ ocrTwin' = NoOcrTwin
    /\ UNCHANGED <<ocrStack, notOcr>>

OcrNext ==
    \/ OcrNewCall
    \/ OcrNewTwinCall
    \/ OcrDebugCall
    \/ CallExtractCounts
    \/ CallExtractWithDebug
    \/ CallCollectDebugBundle
    \/ OcrReturn

\* the state SpecOcr starts in: the other parts of the model stay off
OcrStart == OcrInit /\ NormOff /\ PipeOff /\ ThrOff /\ MiniOff

SpecOcr == OcrStart /\ [][OcrNext]_vars

-----------------------------------------------------------------------------
(* Both readers: ocr_pipeline.read_counters with the shipped icon files or *)
(* with none, or the entry points of cogs/shards/ocr.py.                   *)

PipeInitFew ==
    /\ PipeInit
    /\ disk \in {DiskAll, [n \in ShardNames |-> "missing"]}
    /\ pin = Image(70, 40, ShardNames, AllReads(EngConf12))

ExtractInit == (PipeInitFew /\ OcrOff) \/ (PipeOff /\ OcrInit)

ExtractNext == PipeNext \/ OcrNext

\* the state SpecExtract starts in: the other parts of the model stay off
ExtractStart == ExtractInit /\ NormOff /\ ThrOff /\ MiniOff

SpecExtract == ExtractStart /\ [][ExtractNext]_vars


-----------------------------------------------------------------------------
-----------------------------------------------------------------------------
(* Threads calling into ocr_pipeline.py and ocr_debug.py at the same time. *)
(* A thread runs _template_rois_with_boxes in the steps the interpreter    *)
(* can switch threads between: the test of _TEMPLATE_CACHE, the call of    *)
(* load_templates, the assignment of its result, the use of the cache.     *)

\* the calls of load_templates a behaviour is followed for
MaxLoads == 3

ThreadEntries == {"find_counter_rois", "build_left_rail_overlay"}

ThreadImages ==
    {Image(70, 40, ShardNames, AllReads(EngConf12)),
     Image(70, 40, {"Mystery"}, AllReads(EngConf12))}

CacheInit ==
    /\ disk \in DiskChoices
    /\ cacheSet = FALSE
    /\ cacheTpl = NoTemplates
    /\ loads = 0
    /\ call = "none"
    /\ img = NoImage
    /\ regions = <<>>
    /\ res = NoResult
    /\ pin = NoImage
    /\ pinRes = NoPinRes
    /\ twin = NoTwin
    /\ pipePc = "off"
    /\ thr = [t \in Threads |-> ThreadIdle]
    /\ writes = 0

\* a thread enters find_counter_rois or build_left_rail_overlay
ThreadCall(t) ==
    /\ thr[t].pc = "idle"
    /\ loads < MaxLoads
    /\ \E entry \in ThreadEntries : \E image \in ThreadImages :
          thr' = [thr EXCEPT ![t] = [pc |-> "test", entry |-> entry,
                                     image |-> image, tpl |-> NoTemplates]]
    /\ UNCHANGED <<disk, cacheSet, cacheTpl, loads, writes, notThr>>

\* "if _TEMPLATE_CACHE is None"
ThreadTest(t) ==
    /\ thr[t].pc = "test"
    /\ thr' = [thr EXCEPT ![t].pc = IF cacheSet THEN "use" ELSE "load"]
    /\ UNCHANGED <<disk, cacheSet, cacheTpl, loads, writes, notThr>>

\* the call load_templates() of "_TEMPLATE_CACHE = load_templates()"
ThreadLoad(t) ==
    /\ thr[t].pc = "load"
    /\ thr' = [thr EXCEPT ![t].pc = "assign", ![t].tpl = load_templates(disk)]
    /\ loads' = loads + 1
    /\ UNCHANGED <<disk, cacheSet, cacheTpl, writes, notThr>>

\* the assignment of "_TEMPLATE_CACHE = load_templates()"
ThreadAssign(t) ==
    /\ thr[t].pc = "assign"
    /\ cacheTpl' = thr[t].tpl
    /\ cacheSet' = TRUE
    /\ writes' = writes + 1
    /\ thr' = [thr EXCEPT ![t].pc = "use"]
    /\ UNCHANGED <<disk, loads, notThr>>

\* the rest of the call: the regions from the cached templates.
\* build_left_rail_overlay goes on to load the templates itself if
\* find_counter_rois_with_boxes gave it no region.
ThreadUse(t) ==
    /\ thr[t].pc = "use"
    /\ thr' = [thr EXCEPT ![t].pc =
                  IF /\ thr[t].entry = "build_left_rail_overlay"
                     /\ find_counter_rois_with_boxes(thr[t].image, cacheTpl)
                            = <<>>
                  THEN "reload" ELSE "done"]
    /\ UNCHANGED <<disk, cacheSet, cacheTpl, loads, writes, notThr>>

\* build_left_rail_overlay's "templates = load_templates()"
ThreadReload(t) ==
    /\ thr[t].pc = "reload"
    /\ thr' = [thr EXCEPT ![t].pc = "done", ![t].tpl = load_templates(disk)]
    /\ loads' = loads + 1
    /\ UNCHANGED <<disk, cacheSet, cacheTpl, writes, notThr>>

\* the call returns
ThreadReturn(t) ==
    /\ thr[t].pc = "done"
    /\ thr' = [thr EXCEPT ![t] = ThreadIdle]
    /\ UNCHANGED <<disk, cacheSet, cacheTpl, loads, writes, notThr>>

CacheNext ==
    \E t \in Threads :
        \/ ThreadCall(t)
        \/ ThreadTest(t)
        \/ ThreadLoad(t)
        \/ ThreadAssign(t)
        \/ ThreadUse(t)
        \/ ThreadReload(t)
        \/ ThreadReturn(t)

\* the state SpecCache starts in: the other parts of the model stay off
CacheStart == CacheInit /\ NormOff /\ OcrOff /\ MiniOff

SpecCache == CacheStart /\ [][CacheNext]_vars

-----------------------------------------------------------------------------
(* ocr_pipeline.py: the two ROI preprocessors, applied to one crop.        *)
(* cvErr: an OpenCV call of the preprocessor raises on this crop.          *)

\* the largest side of a crop handed to a preprocessor
MaxCropSide == 4

\* fx = fy = 2.0 of preprocess_for_ocr's cv2.resize
UpscaleFactor == 2

\* img.size == 0
CropEmpty(crop) == crop.h * crop.w = 0

PrepRaised == PrepOut(TRUE, Crop(0, 0, 1))

(* ocr_pipeline._prep_bin: grayscale, median blur, adaptive threshold      *)
_prep_bin(crop, cvErr) ==
    IF CropEmpty(crop) THEN PrepRaised
    ELSE IF cvErr THEN PrepRaised
    ELSE PrepOut(FALSE, Crop(crop.h, crop.w, 1))

\* preprocess_for_ocr without its cv2.resize
preprocess_no_upscale(crop, band_name, cvErr) ==
    IF CropEmpty(crop) THEN PrepRaised
    ELSE IF cvErr THEN PrepRaised
    ELSE PrepOut(FALSE, Crop(crop.h, crop.w, 1))

(* ocr_pipeline.preprocess_for_ocr: upscale, grayscale, threshold, open;   *)
(* band_name chooses the threshold's block and the dilation only           *)
preprocess_for_ocr(crop, band_name, cvErr) ==
    IF CropEmpty(crop) THEN PrepRaised
    ELSE IF cvErr THEN PrepRaised
    ELSE PrepOut(FALSE, Crop(UpscaleFactor * crop.h, UpscaleFactor * crop.w, 1))

PrepInit == prep = NoPrep

\* _read_int hands _prep_bin a region, _read_band hands preprocess_for_ocr
\* the region and its band's name
PrepCall ==
    /\ prep.pc = "idle"
    /\ \E fn \in {"_prep_bin", "preprocess_for_ocr"} :
       \E h \in 0..MaxCropSide : \E w \in 0..MaxCropSide :
       \E ch \in {1, 3} : \E band \in ShardNames : \E e \in BOOLEAN :
          prep' = [pc |-> "called", fn |-> fn, crop |-> Crop(h, w, ch),
                   band |-> band, cvErr |-> e, out |-> NoPrep.out]
    /\ UNCHANGED notPrep

RunPrepBin ==
    /\ prep.pc = "called"
    /\ prep.fn = "_prep_bin"
    /\ prep' = [prep EXCEPT !.pc = "done",
                            !.out = _prep_bin(prep.crop, prep.cvErr)]
    /\ UNCHANGED notPrep

RunPreprocessForOcr ==
    /\ prep.pc = "called"
    /\ prep.fn = "preprocess_for_ocr"
    /\ prep' = [prep EXCEPT !.pc = "done",
                            !.out = preprocess_for_ocr(prep.crop, prep.band,
                                                       prep.cvErr)]
    /\ UNCHANGED notPrep

PrepReturn ==
    /\ prep.pc = "done"
    /\ prep' = NoPrep
    /\ UNCHANGED notPrep

PrepNext == PrepCall \/ RunPrepBin \/ RunPreprocessForOcr \/ PrepReturn

\* the state SpecPrep starts in: the other parts of the model stay off
PrepStart ==
    /\ PrepInit
    /\ NormOff
    /\ PipeOff
    /\ OcrOff
    /\ ThrOff
    /\ SplitOff
    /\ CogOff
    /\ ScaleOff
    /\ FeatOff
    /\ ResOff
    /\ TessOff
    /\ ReadIntOff
    /\ MatchOff
    /\ PassOff
    /\ RoisOff
    /\ ClaimOff
    /\ LevelOff
    /\ GroupOff
    /\ WatchOff
    /\ PanelOff

SpecPrep == PrepStart /\ [][PrepNext]_vars

-----------------------------------------------------------------------------
(* The two equal-band splits, applied to one image size: the regions of    *)
(* ocr_pipeline._legacy_find_counter_rois, and the bands of                *)
(* _read_counts_from_roi_impl a token with centre line cy falls in.        *)

\* the largest height of an image handed to a band split
MaxSplitSide == 12

\* the largest width
MaxSplitWidth == 2

\* the bands (0-based) whose "y0 <= tok.cy < y1" a token centred at cy meets
BandsOfToken(H, cy) ==
    {b \in 0..(Len(order) - 1) :
        BandTokens(<<[tok |-> _OcrToken(0, cy, 2, 0, 90, <<"1">>, "")]>>,
                   b, H) # <<>>}

SplitInit == split = NoSplit

SplitCall ==
    /\ split.pc = "idle"
    /\ \E fn \in {"_legacy_find_counter_rois", "_read_counts_from_roi_impl"} :
       \E h \in 0..MaxSplitSide : \E w \in 0..MaxSplitWidth :
       \E cy \in 0..MaxSplitSide :
          /\ fn = "_legacy_find_counter_rois" => cy = 0
          /\ fn = "_read_counts_from_roi_impl" => w = MaxSplitWidth /\ h > 0
          /\ split' = [NoSplit EXCEPT !.pc = "called", !.fn = fn, !.h = h,
                                      !.w = w, !.cy = cy]
    /\ UNCHANGED notSplit

RunLegacySplit ==
    /\ split.pc = "called"
    /\ split.fn = "_legacy_find_counter_rois"
    /\ split' = [split EXCEPT
                    !.pc = "done",
                    !.rois = _legacy_find_counter_rois(
                                 [h |-> split.h, w |-> split.w])]
    /\ UNCHANGED notSplit

RunBandSplit ==
    /\ split.pc = "called"
    /\ split.fn = "_read_counts_from_roi_impl"
    /\ split' = [split EXCEPT !.pc = "done",
                              !.bands = BandsOfToken(split.h, split.cy)]
    /\ UNCHANGED notSplit

SplitReturn ==
    /\ split.pc = "done"
    /\ split' = NoSplit
    /\ UNCHANGED notSplit

SplitNext == SplitCall \/ RunLegacySplit \/ RunBandSplit \/ SplitReturn

\* the state SpecSplit starts in: the other parts of the model stay off
SplitStart ==
    /\ SplitInit
    /\ NormOff
    /\ PipeOff
    /\ OcrOff
    /\ ThrOff
    /\ PrepOff
    /\ CogOff
    /\ ScaleOff
    /\ FeatOff
    /\ ResOff
    /\ TessOff
    /\ ReadIntOff
    /\ MatchOff
    /\ PassOff
    /\ RoisOff
    /\ ClaimOff
    /\ LevelOff
    /\ GroupOff
    /\ WatchOff
    /\ PanelOff

SpecSplit == SplitStart /\ [][SplitNext]_vars

-----------------------------------------------------------------------------
(* cogs/shards: the three handlers that save an inventory snapshot.        *)

labels == <<"Mystery", "Ancient", "Void", "Primal", "Sacred">>

\* what a user can leave in one field of the form
FieldTexts == {<<>>, <<" ">>, <<"0">>, <<"7">>, <<"x">>, <<"-", "2">>}

\* the counts _ocr_prefill_from_attachment hands to the panel: all five keys
OcrPrefills ==
    {[n \in ShardNames |-> IF n \in S THEN 3 ELSE 0] :
        S \in {{}, {"Void"}, ShardNames}}

\* str(n) of a non-negative int
RECURSIVE str_int(_)
str_int(n) ==
    IF n < 10 THEN <<CHOOSE c \in DigitChars : DigitVal(c) = n>>
    ELSE str_int(n \div 10) \o str_int(n % 10)

\* SetCountsModal(prefill): the five fields, prefilled with str(count) or ""
SetCountsModal(prefill) ==
    [i \in 1..Len(labels) |->
        IF labels[i] \in DOMAIN prefill THEN str_int(prefill[labels[i]])
        ELSE <<>>]

\* SetCountsModal.parse_counts: blank fields are skipped, the digits of the
\* others are read; int("") raises for a field without a digit
parse_counts(children) ==
    LET raw == [i \in 1..Len(labels) |-> Strip(children[i])]
        filled == {i \in 1..Len(labels) : raw[i] # <<>>}
        digits == [i \in 1..Len(labels) |->
                      SelectSeq(raw[i], LAMBDA ch : ch \in DigitChars)]
    IN  IF \E i \in filled : digits[i] = <<>>
        THEN [raised |-> TRUE, vals |-> <<>>]
        ELSE [raised |-> FALSE,
              vals |-> [n \in {labels[i] : i \in filled} |->
                           LET i == CHOOSE j \in filled : labels[j] = n
                           IN  IF IntOf(digits[i]) > 0 THEN IntOf(digits[i])
                               ELSE 0]]

\* a guard that only asks whether the map has a key
any_keys(parsed) == DOMAIN parsed # {}

\* any(parsed.values())
any_values(parsed) == \E k \in DOMAIN parsed : parsed[k] # 0

CogFlows == {"_use_counts", "_manual", "_open"}

CogInit == cog = NoCog

\* the button is clicked: somebody else's click is turned away, the owner
\* gets the form
CogClick ==
    /\ cog.pc = "idle"
    /\ \E flow \in CogFlows : \E counts \in OcrPrefills \cup {<<>>} :
       \E owner \in BOOLEAN :
          /\ (counts # <<>>) <=> (flow = "_use_counts")
          /\ cog' = IF owner
                    THEN [NoCog EXCEPT !.pc = "modal", !.flow = flow,
                                       !.counts = counts,
                                       !.children = SetCountsModal(counts)]
                    ELSE [NoCog EXCEPT !.pc = "done", !.flow = flow,
                                       !.counts = counts,
                                       !.reply = "Not yours."]
    /\ UNCHANGED notCog

\* modal.wait(): the user submits the form, or it times out as it was shown
CogModalWait ==
    /\ cog.pc = "modal"
    /\ \E typed \in [1..Len(labels) -> FieldTexts] \cup {cog.children} :
          cog' = [cog EXCEPT !.pc = "submitted", !.children = typed]
    /\ UNCHANGED notCog

\* the rest of the handler: parse, the guard, append_snapshot
CogSave ==
    /\ cog.pc = "submitted"
    /\ LET p == parse_counts(cog.children)
           parsed == IF ~p.raised THEN p.vals
                     ELSE IF cog.flow = "_use_counts" THEN cog.counts
                     ELSE <<>>
       IN  cog' = IF ~any_values(parsed)
                  THEN [cog EXCEPT !.pc = "done", !.parsed = parsed,
                                   !.reply = "No numbers provided."]
                  ELSE [cog EXCEPT !.pc = "done", !.parsed = parsed,
                                   !.saved = TRUE, !.snapshot = parsed,
                                   !.reply = "Counts saved."]
    /\ UNCHANGED notCog

CogReturn ==
    /\ cog.pc = "done"
    /\ cog' = NoCog
    /\ UNCHANGED notCog

CogNext == CogClick \/ CogModalWait \/ CogSave \/ CogReturn

\* the state SpecCog starts in: the other parts of the model stay off
CogStart ==
    /\ CogInit
    /\ NormOff
    /\ PipeOff
    /\ OcrOff
    /\ ThrOff
    /\ PrepOff
    /\ SplitOff
    /\ ScaleOff
    /\ FeatOff
    /\ ResOff
    /\ TessOff
    /\ ReadIntOff
    /\ MatchOff
    /\ PassOff
    /\ RoisOff
    /\ ClaimOff
    /\ LevelOff
    /\ GroupOff
    /\ WatchOff
    /\ PanelOff

SpecCog == CogStart /\ [][CogNext]_vars

-----------------------------------------------------------------------------
(* cogs/shards/ocr: the scale step at the head of the three entry points.  *)

\* widths this far on either side of the two thresholds are tried
ScaleMargin == 25

ScaleWidths ==
    {1, 2600}
    \cup ((900 - ScaleMargin)..(900 + ScaleMargin))
    \cup ((1300 - ScaleMargin)..(1300 + ScaleMargin))

ScaleHeights == {1, 899, 900, 1300, 2600}

ScaleInit == scal = NoScale

\* an entry point has decoded a screenshot of this size
ScaleCall ==
    /\ scal.pc = "idle"
    /\ \E w \in ScaleWidths : \E h \in ScaleHeights :
          scal' = [NoScale EXCEPT !.pc = "called", !.w = w, !.h = h]
    /\ UNCHANGED notScale

\* scale = _scale_if_small(base.width, base.height), then the resize
RunScale ==
    /\ scal.pc = "called"
    /\ scal' = [scal EXCEPT !.pc = "done",
                            !.scale = _scale_if_small(scal.w, scal.h),
                            !.base = BaseSize(scal)]
    /\ UNCHANGED notScale

ScaleReturn ==
    /\ scal.pc = "done"
    /\ scal' = NoScale
    /\ UNCHANGED notScale

ScaleNext == ScaleCall \/ RunScale \/ ScaleReturn

\* the state SpecScale starts in: the other parts of the model stay off
ScaleStart ==
    /\ ScaleInit
    /\ NormOff
    /\ PipeOff
    /\ OcrOff
    /\ ThrOff
    /\ PrepOff
    /\ SplitOff
    /\ CogOff
    /\ FeatOff
    /\ ResOff
    /\ TessOff
    /\ ReadIntOff
    /\ MatchOff
    /\ PassOff
    /\ RoisOff
    /\ ClaimOff
    /\ LevelOff
    /\ GroupOff
    /\ WatchOff
    /\ PanelOff

SpecScale == ScaleStart /\ [][ScaleNext]_vars

-----------------------------------------------------------------------------
(* shared/config: the feature toggles.  A Python value is a record of its  *)
(* type and its str(); a supplied mapping is the sequence of its items.    *)

PyBool(b) ==
    [t |-> "bool",
     s |-> IF b THEN <<"T", "r", "u", "e">> ELSE <<"F", "a", "l", "s", "e">>]

PyInt(digits) == [t |-> "int", s |-> digits]

PyNone == [t |-> "none", s |-> <<"N", "o", "n", "e">>]

PyStr(s) == [t |-> "str", s |-> s]

\* None as a key: a mark no text is made of
NoneKey == <<"None">>

Item(key, value) == [key |-> key, value |-> value]

\* str.lower on the capitals the supplied texts hold
ToLower == ("Y" :> "y") @@ ("O" :> "o") @@ ("N" :> "n")

lower(s) ==
    [i \in 1..Len(s) |-> IF s[i] \in DOMAIN ToLower THEN ToLower[s[i]] ELSE s[i]]

Truthy ==
    {<<"1">>, <<"t", "r", "u", "e">>, <<"t">>, <<"y", "e", "s">>, <<"y">>,
     <<"o", "n">>, <<"e", "n", "a", "b", "l", "e", "d">>}

(* config._to_bool                                                          *)
_to_bool(value) ==
    IF value.t = "bool" THEN value = PyBool(TRUE)
    ELSE IF value.t = "int" THEN IntOf(value.s) # 0
    ELSE IF value.t = "none" THEN FALSE
    ELSE lower(Strip(value.s)) \in Truthy

(* config._normalize: keys stripped, None and blank keys dropped, values   *)
(* coerced; a later item replaces an earlier one of the same key           *)
RECURSIVE _normalize(_)
_normalize(items) ==
    IF items = <<>> THEN <<>>
    ELSE LET before == _normalize(SubSeq(items, 1, Len(items) - 1))
             it == items[Len(items)]
             key == Strip(it.key)
         IN  IF it.key = NoneKey \/ key = <<>> THEN before
             ELSE [k \in DOMAIN before \cup {key} |->
                      IF k = key THEN _to_bool(it.value) ELSE before[k]]

\* a merge in which a default wins over an override
MergedDefaultsWin(defaults, overrides) ==
    [k \in DOMAIN defaults \cup DOMAIN overrides |->
        IF k \in DOMAIN defaults THEN defaults[k] ELSE overrides[k]]

\* merged = dict(defaults); merged.update(overrides)
Merged(defaults, overrides) ==
    [k \in DOMAIN defaults \cup DOMAIN overrides |->
        IF k \in DOMAIN overrides THEN overrides[k] ELSE defaults[k]]

(* config.is_enabled                                                        *)
is_enabled(toggles, name) ==
    LET key == IF name = NoneKey THEN <<>> ELSE Strip(name)
    IN  IF key = <<>> THEN FALSE
        ELSE IF key \in DOMAIN toggles THEN toggles[key]
        ELSE FALSE

\* the mappings a caller supplies
SuppliedMaps ==
    {<<>>,
     <<Item(<<"a">>, PyBool(TRUE))>>,
     <<Item(<<"a">>, PyBool(FALSE))>>,
     <<Item(<<" ", "a", " ">>, PyStr(<<"Y", "e", "s">>))>>,
     <<Item(<<"b">>, PyInt(<<"2">>)), Item(<<"a">>, PyStr(<<"o", "f", "f">>))>>,
     <<Item(NoneKey, PyBool(TRUE)), Item(<<" ">>, PyBool(TRUE))>>,
     <<Item(<<"a">>, PyBool(TRUE)), Item(<<"a", " ">>, PyBool(FALSE))>>,
     <<Item(<<"b">>, PyNone)>>,
     <<Item(<<"b">>, PyStr(<<" ", "O", "N">>))>>}

\* an argument left out
NotGiven == <<Item(NoneKey, PyNone)>>

\* the names is_enabled is asked about
AskedNames == {NoneKey, <<>>, <<"a">>, <<" ", "a">>, <<"b">>, <<"c">>}

\* configure_feature_toggles calls in one run
MaxConfigures == 3

FeatInit == feat = NoToggles

ConfigureFeatureToggles ==
    /\ feat.calls < MaxConfigures
    /\ \E defaults \in SuppliedMaps \cup {NotGiven} :
       \E overrides \in SuppliedMaps \cup {NotGiven} :
          LET d == IF defaults # NotGiven THEN _normalize(defaults)
                   ELSE feat.defaults
              o == IF overrides # NotGiven THEN _normalize(overrides)
                   ELSE feat.overrides
          IN  feat' = [feat EXCEPT
                          !.pc = "idle",
                          !.defaults = d,
                          !.overrides = o,
                          !.toggles = Merged(d, o),
                          !.lastDefaults =
                              IF defaults # NotGiven THEN defaults ELSE @,
                          !.lastOverrides =
                              IF overrides # NotGiven THEN overrides ELSE @,
                          !.calls = @ + 1,
                          !.name = NoName, !.enabled = FALSE, !.got = <<>>]
    /\ UNCHANGED notFeat

IsEnabled ==
    /\ \E name \in AskedNames :
          feat' = [feat EXCEPT !.pc = "asked", !.name = name,
                               !.enabled = is_enabled(feat.toggles, name)]
    /\ UNCHANGED notFeat

GetFeatureToggles ==
    /\ feat' = [feat EXCEPT !.pc = "got", !.got = feat.toggles]
    /\ UNCHANGED notFeat

FeatNext == ConfigureFeatureToggles \/ IsEnabled \/ GetFeatureToggles

\* the state SpecFeat starts in: the other parts of the model stay off
FeatStart ==
    /\ FeatInit
    /\ NormOff
    /\ PipeOff
    /\ OcrOff
    /\ ThrOff
    /\ PrepOff
    /\ SplitOff
    /\ CogOff
    /\ ScaleOff
    /\ ResOff
    /\ TessOff
    /\ ReadIntOff
    /\ MatchOff
    /\ PassOff
    /\ RoisOff
    /\ ClaimOff
    /\ LevelOff
    /\ GroupOff
    /\ WatchOff
    /\ PanelOff

SpecFeat == FeatStart /\ [][FeatNext]_vars

-----------------------------------------------------------------------------
(* One screenshot read at two resolutions by ocr_pipeline.read_counters.   *)
(* The matcher and the engine are taken at their best: a template resized  *)
(* to the size an icon has on the image scores as on ScoresClear, and the  *)
(* engine reads the same text for a shard at both resolutions.             *)

\* cv2.matchTemplate's best score for each scale of the sweep, for an icon
\* whose side on the image is iconPct percent of the template's
IconScores(iconPct) ==
    [k \in 1..Len(DefaultScales) |->
        LET r == (DefaultScales[k] * 100) \div iconPct
        IN  IF r = 100 THEN 95 ELSE IF r >= 90 /\ r <= 110 THEN 80 ELSE 50]

\* a screenshot with the icons of the shards in shown, of that size
ImageAt(h, w, shown, iconPct, reads) ==
    [h |-> h, w |-> w, iconPct |-> iconPct, reads |-> reads,
     icons |-> [n \in ShardNames |->
                   [scores |-> IF n \in shown THEN IconScores(iconPct)
                               ELSE ScoresNone,
                    x |-> 2,
                    y |-> 2 + 13 * (IndexOf(n) - 1)]]]

\* the same screenshot at factor times the resolution
Rescaled(image, factor) ==
    [image EXCEPT
        !.h = @ * factor,
        !.w = @ * factor,
        !.iconPct = @ * factor,
        !.icons = [n \in ShardNames |->
                      [scores |-> IF @[n].scores = ScoresNone THEN ScoresNone
                                  ELSE IconScores(image.iconPct * factor),
                       x |-> @[n].x * factor,
                       y |-> @[n].y * factor]]]

IconSizes == {60, 70, 100}

ResFactors == {2, 3}

ResImages ==
    {ImageAt(70, 40, shown, pct, AllReads(e)) :
        shown \in SUBSET ShardNames, pct \in IconSizes,
        e \in {EngBlank, EngConf12}}

ResInit == rsl = NoRescale

\* read_counters(img), every icon file loaded
ResRead ==
    /\ rsl.pc = "idle"
    /\ \E image \in ResImages :
          LET rs == find_counter_rois(image, load_templates(DiskAll))
          IN  rsl' = [NoRescale EXCEPT !.pc = "read", !.image = image,
                                       !.regions = rs,
                                       !.first = read_counters(image, rs)]
    /\ UNCHANGED notRes

\* read_counters on the same screenshot at another resolution
ResReadRescaled ==
    /\ rsl.pc = "read"
    /\ \E factor \in ResFactors :
          LET image == Rescaled(rsl.image, factor)
              rs == find_counter_rois(image, load_templates(DiskAll))
          IN  rsl' = [rsl EXCEPT !.pc = "both", !.factor = factor,
                                 !.regions2 = rs,
                                 !.second = read_counters(image, rs)]
    /\ UNCHANGED notRes

ResReturn ==
    /\ rsl.pc = "both"
    /\ rsl' = NoRescale
    /\ UNCHANGED notRes

ResNext == ResRead \/ ResReadRescaled \/ ResReturn

\* the state SpecRes starts in: the other parts of the model stay off
ResStart ==
    /\ ResInit
    /\ NormOff
    /\ PipeOff
    /\ OcrOff
    /\ ThrOff
    /\ PrepOff
    /\ SplitOff
    /\ CogOff
    /\ ScaleOff
    /\ FeatOff
    /\ TessOff
    /\ ReadIntOff
    /\ MatchOff
    /\ PassOff
    /\ RoisOff
    /\ ClaimOff
    /\ LevelOff
    /\ GroupOff
    /\ WatchOff
    /\ PanelOff

SpecRes == ResStart /\ [][ResNext]_vars

-----------------------------------------------------------------------------
(* ocr_pipeline.tesseract_read, one image_to_string call at a time.        *)

\* what one image_to_string call can answer: an exception or a text
AttemptOutcomes ==
    {TxtErr, Txt(<<>>), Txt(<<"x">>), Txt(<<" ", "4", "5", ".">>),
     Txt(<<"7">>)}

\* a retry condition that only asks whether anything was read
NothingRead(text) == text = <<>>

\* the condition of lines 154 and 161
NotANumber(text) == ~_looks_like_number(text)

\* the text an attempt leaves in the variable text
AttemptText(outcome) == IF outcome.err THEN <<>> ELSE Strip(outcome.text)

TessInit == tess = NoTess

TessCall ==
    /\ tess.pc = "idle"
    /\ \E band \in {"none", "Void", "Sacred"} : \E empty \in BOOLEAN :
       \E p \in AttemptOutcomes : \E f \in AttemptOutcomes :
       \E s \in AttemptOutcomes :
          tess' = [NoTess EXCEPT !.pc = "entered", !.band = band,
                                 !.empty = empty,
                                 !.eng = [prim |-> p, fb |-> f, single |-> s]]
    /\ UNCHANGED notTess

\* img_bw is None or has no pixel: "" without a call of the engine
TessEmpty ==
    /\ tess.pc = "entered"
    /\ tess.empty
    /\ tess' = [tess EXCEPT !.pc = "returned", !.text = <<>>]
    /\ UNCHANGED notTess

\* the primary configuration; an exception ends the call with ""
TessPrimary ==
    /\ tess.pc = "entered"
    /\ ~tess.empty
    /\ tess' = [tess EXCEPT
                   !.pc = IF tess.eng.prim.err THEN "returned" ELSE "primary",
                   !.calls = Append(@, "primary"),
                   !.text = AttemptText(tess.eng.prim)]
    /\ UNCHANGED notTess

\* the fallback configuration, or the step over it
TessFallback ==
    /\ tess.pc = "primary"
    /\ tess' = IF NotANumber(tess.text)
               THEN [tess EXCEPT !.pc = "fallback",
                                 !.calls = Append(@, "fallback"),
                                 !.text = AttemptText(tess.eng.fb)]
               ELSE [tess EXCEPT !.pc = "fallback"]
    /\ UNCHANGED notTess

\* the single-character configuration, or the step over it; return text
TessSingle ==
    /\ tess.pc = "fallback"
    /\ tess' = IF NotANumber(tess.text) /\ tess.band = "Sacred"
               THEN [tess EXCEPT !.pc = "returned",
                                 !.calls = Append(@, "single"),
                                 !.text = AttemptText(tess.eng.single)]
               ELSE [tess EXCEPT !.pc = "returned"]
    /\ UNCHANGED notTess

TessReturn ==
    /\ tess.pc = "returned"
    /\ tess' = NoTess
    /\ UNCHANGED notTess

TessNext ==
    TessCall \/ TessEmpty \/ TessPrimary \/ TessFallback \/ TessSingle
        \/ TessReturn

\* the state SpecTess starts in: the other parts of the model stay off
TessStart ==
    /\ TessInit
    /\ NormOff
    /\ PipeOff
    /\ OcrOff
    /\ ThrOff
    /\ PrepOff
    /\ SplitOff
    /\ CogOff
    /\ ScaleOff
    /\ FeatOff
    /\ ResOff
    /\ ReadIntOff
    /\ MatchOff
    /\ PassOff
    /\ RoisOff
    /\ ClaimOff
    /\ LevelOff
    /\ GroupOff
    /\ WatchOff
    /\ PanelOff

SpecTess == TessStart /\ [][TessNext]_vars

-----------------------------------------------------------------------------
(* ocr_pipeline._read_int on a region with pixels, pass by pass.           *)

\* the rows image_to_data can answer with: a text and its confidence
DataRows ==
    {Tk(t, c) : t \in {<<"1">>, <<"2", "3">>, <<" ">>}, c \in {90, 35, 20, -1}}

\* up to two rows
DataAnswers ==
    {<<>>} \cup {<<a>> : a \in DataRows}
           \cup {<<a, b>> : a \in DataRows, b \in DataRows}

LenientAnswers ==
    {TxtErr, Txt(<<>>), Txt(<<"1">>), Txt(<<"1", ",", "2", "3", "4">>),
     Txt(<<"2", "3", "x">>)}

ReadIntInit == rint = NoReadInt

\* _read_int(name, roi_np): _prep_bin and image_to_data have answered
ReadIntCall ==
    /\ rint.pc = "idle"
    /\ \E rows \in DataAnswers : \E len \in LenientAnswers :
          rint' = [NoReadInt EXCEPT
                      !.pc = "called",
                      !.eng = [EngBlank EXCEPT !.data = Data(rows),
                                               !.lenient = len]]
    /\ UNCHANGED notReadInt

\* the loop over the rows: all_texts / all_confs and texts / confs
ReadIntStrict ==
    /\ rint.pc = "called"
    /\ LET all == AllTokens(rint.eng)
           strict == StrictTokens(all)
       IN  rint' = [rint EXCEPT
                       !.pc = "strict",
                       !.all = all,
                       !.strict = strict,
                       !.cand_a = RemoveChars(Join(TextsOf(strict)), {" ", ","}),
                       !.conf_a = IF strict # <<>> THEN MeanOf(ConfsOf(strict))
                                  ELSE FracZero]
    /\ UNCHANGED notReadInt

\* the lenient pass, if the strict pass dropped a row
ReadIntLenient ==
    /\ rint.pc = "strict"
    /\ rint' = IF Len(rint.all) > 0 /\ Len(rint.strict) < Len(rint.all)
               THEN [rint EXCEPT
                        !.pc = "lenient",
                        !.lenientRun = TRUE,
                        !.cand_b = _lenient_digits(FALSE, rint.eng),
                        !.conf_b = MeanOf(SelectSeq(ConfsOf(rint.all),
                                                    LAMBDA c : c >= 0))]
               ELSE [rint EXCEPT !.pc = "lenient"]
    /\ UNCHANGED notReadInt

\* the choice between the two candidates and the return
ReadIntChoose ==
    /\ rint.pc = "lenient"
    /\ rint' = [rint EXCEPT
                   !.pc = "returned",
                   !.out = ChooseCandidate(rint.cand_a, rint.conf_a,
                                           rint.cand_b, rint.conf_b)]
    /\ UNCHANGED notReadInt

ReadIntReturn ==
    /\ rint.pc = "returned"
    /\ rint' = NoReadInt
    /\ UNCHANGED notReadInt

ReadIntNext ==
    ReadIntCall \/ ReadIntStrict \/ ReadIntLenient \/ ReadIntChoose
        \/ ReadIntReturn

\* the state SpecReadInt starts in: the other parts of the model stay off
ReadIntStart ==
    /\ ReadIntInit
    /\ NormOff
    /\ PipeOff
    /\ OcrOff
    /\ ThrOff
    /\ PrepOff
    /\ SplitOff
    /\ CogOff
    /\ ScaleOff
    /\ FeatOff
    /\ ResOff
    /\ TessOff
    /\ MatchOff
    /\ PassOff
    /\ RoisOff
    /\ ClaimOff
    /\ LevelOff
    /\ GroupOff
    /\ WatchOff
    /\ PanelOff

SpecReadInt == ReadIntStart /\ [][ReadIntNext]_vars

-----------------------------------------------------------------------------
(* left_rail.match_icons handed a short sweep of scales.                   *)

\* the scales argument: templates of side 10, 12 and 15
MatchScales == <<100, 120, 150>>

\* cv2.matchTemplate's best score at one scale
MatchScores == {50, 65, 80}

\* the third scale fits the first size only, no scale fits the last
MatchSizes == {[h |-> 70, w |-> 40], [h |-> 13, w |-> 40], [h |-> 9, w |-> 9]}

\* the Mystery and the Void icon score as given, the others nowhere
MatchImage(size, mystery, void) ==
    [h |-> size.h, w |-> size.w, reads |-> AllReads(EngBlank),
     icons |-> [n \in ShardNames |->
                   [scores |-> IF n = "Mystery" THEN mystery
                               ELSE IF n = "Void" THEN void
                               ELSE [k \in 1..Len(MatchScales) |-> 30],
                    x |-> 2,
                    y |-> 2 + 13 * (IndexOf(n) - 1)]]]

MatchInit == mtch = NoMatch

MatchCall ==
    /\ mtch.pc = "idle"
    /\ \E size \in MatchSizes :
       \E mystery \in [1..Len(MatchScales) -> MatchScores] :
       \E void \in [1..Len(MatchScales) -> MatchScores] :
       \E files \in {DiskAll, [DiskAll EXCEPT !["Void"] = "missing"]} :
          mtch' = [NoMatch EXCEPT !.pc = "called",
                                  !.image = MatchImage(size, mystery, void),
                                  !.templates = load_templates(files)]
    /\ UNCHANGED notMatch

RunMatchIcons ==
    /\ mtch.pc = "called"
    /\ mtch' = [mtch EXCEPT
                   !.pc = "done",
                   !.hits = match_icons(mtch.image, mtch.templates,
                                        MatchScales, DefaultThresh)]
    /\ UNCHANGED notMatch

MatchReturn ==
    /\ mtch.pc = "done"
    /\ mtch' = NoMatch
    /\ UNCHANGED notMatch

MatchNext == MatchCall \/ RunMatchIcons \/ MatchReturn

\* the state SpecMatch starts in: the other parts of the model stay off
MatchStart ==
    /\ MatchInit
    /\ NormOff
    /\ PipeOff
    /\ OcrOff
    /\ ThrOff
    /\ PrepOff
    /\ SplitOff
    /\ CogOff
    /\ ScaleOff
    /\ FeatOff
    /\ ResOff
    /\ TessOff
    /\ ReadIntOff
    /\ PassOff
    /\ RoisOff
    /\ ClaimOff
    /\ LevelOff
    /\ GroupOff
    /\ WatchOff
    /\ PanelOff

SpecMatch == MatchStart /\ [][MatchNext]_vars

-----------------------------------------------------------------------------
(* ocr._read_counts_from_roi, one pass at a time.                          *)

\* the roi of ratio r that extract_counts_from_image_bytes hands over
PassRoi(s, r) == _left_rail_crop(BaseSize(s), ratios[r])

\* the mutant of PrimaryEnough: the aggressive pass never runs
PrimaryAlwaysEnough(score) == score >= 0

\* `if score > 0: return`
PrimaryEnough(score) == score > 0

PassInit == pas = NoPass

PassCall ==
    /\ pas.pc = "idle"
    /\ \E s \in {x \in Shots : x.decodable} : \E r \in 1..Len(ratios) :
          pas' = [NoPass EXCEPT !.pc = "called", !.shot = s, !.r = r]
    /\ UNCHANGED notPass

\* the primary pass, and the return after it when it scored
PassPrimary ==
    /\ pas.pc = "called"
    /\ LET primary == _read_counts_from_roi_impl(pas.shot,
                          PassRoi(pas.shot, pas.r), pas.r, "primary")
       IN  pas' = IF primary.raised
                  THEN [pas EXCEPT !.pc = "raised", !.ran = <<"primary">>]
                  ELSE IF PrimaryEnough(primary.score)
                  THEN [pas EXCEPT !.pc = "returned", !.ran = <<"primary">>,
                                   !.primary = primary, !.from = "primary",
                                   !.out = primary]
                  ELSE [pas EXCEPT !.pc = "retry", !.ran = <<"primary">>,
                                   !.primary = primary]
    /\ UNCHANGED notPass

\* the aggressive pass and the choice
PassFallback ==
    /\ pas.pc = "retry"
    /\ LET fallback == _read_counts_from_roi_impl(pas.shot,
                           PassRoi(pas.shot, pas.r), pas.r, "fallback")
       IN  pas' = IF fallback.raised
                  THEN [pas EXCEPT !.pc = "raised",
                                   !.ran = Append(pas.ran, "fallback")]
                  ELSE IF fallback.score > pas.primary.score
                  THEN [pas EXCEPT !.pc = "returned",
                                   !.ran = Append(pas.ran, "fallback"),
                                   !.fallback = fallback,
                                   !.from = "fallback", !.out = fallback]
                  ELSE [pas EXCEPT !.pc = "returned",
                                   !.ran = Append(pas.ran, "fallback"),
                                   !.fallback = fallback,
                                   !.from = "primary", !.out = pas.primary]
    /\ UNCHANGED notPass

PassReturn ==
    /\ pas.pc \in {"returned", "raised"}
    /\ pas' = NoPass
    /\ UNCHANGED notPass

PassNext == PassCall \/ PassPrimary \/ PassFallback \/ PassReturn

PassStart ==
    /\ PassInit
    /\ NormOff
    /\ PipeOff
    /\ OcrOff
    /\ ThrOff
    /\ PrepOff
    /\ SplitOff
    /\ CogOff
    /\ ScaleOff
    /\ FeatOff
    /\ ResOff
    /\ TessOff
    /\ ReadIntOff
    /\ MatchOff
    /\ RoisOff
    /\ ClaimOff
    /\ LevelOff
    /\ GroupOff
    /\ WatchOff
    /\ PanelOff

SpecPass == PassStart /\ [][PassNext]_vars

-----------------------------------------------------------------------------
(* left_rail.tiles_to_number_rois on hits that lie inside the image.       *)

\* full_img.shape[:2]
RoisImages == {[h |-> 80, w |-> 60], [h |-> 30, w |-> 26]}

\* the side of a matched template
RoisSides == {10, 14}

\* hits at the left and top edge, next to it, and at the right and bottom edge
RoisHits(image) ==
    {TileHit(name, x, y, side, side, 80) :
        name \in {"Mystery", "Void"},
        side \in RoisSides,
        x \in {0, 2},
        y \in {0, 3}}
    \cup
    {TileHit(name, image.w - side - dx, image.h - side - dy, side, side, 80) :
        name \in {"Mystery", "Void"},
        side \in RoisSides,
        dx \in {0, 5},
        dy \in {0, 5}}

RoisInit == nroi = NoRois

RoisCall ==
    /\ nroi.pc = "idle"
    /\ \E image \in RoisImages :
       \E first \in RoisHits(image) :
       \E rest \in {<<>>} \cup {<<hit>> : hit \in RoisHits(image)} :
          nroi' = [NoRois EXCEPT !.pc = "called", !.image = image,
                                 !.hits = <<first>> \o rest]
    /\ UNCHANGED notRois

RunTilesToNumberRois ==
    /\ nroi.pc = "called"
    /\ nroi' = [nroi EXCEPT !.pc = "done",
                            !.out = tiles_to_number_rois(nroi.image, nroi.hits)]
    /\ UNCHANGED notRois

RoisReturn ==
    /\ nroi.pc = "done"
    /\ nroi' = NoRois
    /\ UNCHANGED notRois

RoisNext == RoisCall \/ RunTilesToNumberRois \/ RoisReturn

RoisStart ==
    /\ RoisInit
    /\ NormOff
    /\ PipeOff
    /\ OcrOff
    /\ ThrOff
    /\ PrepOff
    /\ SplitOff
    /\ CogOff
    /\ ScaleOff
    /\ FeatOff
    /\ ResOff
    /\ TessOff
    /\ ReadIntOff
    /\ MatchOff
    /\ PassOff
    /\ ClaimOff
    /\ LevelOff
    /\ GroupOff
    /\ WatchOff
    /\ PanelOff

SpecRois == RoisStart /\ [][RoisNext]_vars

-----------------------------------------------------------------------------
(* c1c_claims_appreciation.py: the life of one claim.  CLAIM_STATE is the   *)
(* entry of the claim's first prompt message ("none": no entry yet); first  *)
(* is the view of the first prompt (announce=True): waiting for its         *)
(* timeout, timed out, or stopped; firstShown says that the prompt message  *)
(* still shows it.  views is the view that each of the claim's messages     *)
(* shows ("none": no live view): the prompt, the follow-up of "Use all",    *)
(* the Guardian Knight review, and the review message after "Try again".    *)
(* A view that an edit has replaced is not clicked any more, but its        *)
(* timeout still comes.  announced counts the expiry announcements, said    *)
(* is what the last handler told the channel.                               *)

ClaimMessages == {"prompt", "followup", "review", "retry"}

\* what RolePicker._on_pick and process_claim come to
PickOutcomes ==
    {"noselection", "unconfigured", "rejected", "already", "grant", "nogrant",
     "review"}

\* what finalize_grant comes to for a Guardian Knight
GrantOutcomes == {"already", "grant", "nogrant"}

\* the mutant of StillOpen: the timeout announces whatever the state is
StillOpenOrNot(state) == TRUE

\* `if CLAIM_STATE.get(self.claim_id) != "open": return`
StillOpen(state) == state = "open"

(* BaseView.on_timeout of a view with the given announce flag              *)
on_timeout(c, announce) ==
    IF ~announce THEN [c EXCEPT !.said = "none"]
    ELSE IF ~StillOpen(c.CLAIM_STATE) THEN [c EXCEPT !.said = "none"]
    ELSE [c EXCEPT !.CLAIM_STATE = "expired",
                   !.announced = c.announced + 1,
                   !.said = "expired"]

\* the view that message m shows is replaced by a picker of the given kind
Show(c, m, kind) ==
    [c EXCEPT !.views[m] = kind,
              !.firstShown = IF m = "prompt" THEN FALSE ELSE c.firstShown,
              !.said = "none"]

\* the Cancel button of a picker on message m: the message is deleted, the
\* state is set, the view is stopped
Cancel(c, m) ==
    [c EXCEPT !.views[m] = "none",
              !.CLAIM_STATE = "canceled",
              !.first = IF m = "prompt" /\ c.firstShown THEN "stopped"
                        ELSE c.first,
              !.firstShown = IF m = "prompt" THEN FALSE ELSE c.firstShown,
              !.said = "canceled"]

(* process_claim, its end given by outcome                                 *)
process_claim(c, outcome) ==
    [c EXCEPT !.CLAIM_STATE = "closed",
              !.views["review"] = IF outcome = "review" THEN "gk"
                                  ELSE c.views["review"],
              !.said = outcome]

ClaimInit == clm = NoClaim

(* on_message: a post with images in the claim thread                      *)
ClaimOnMessage ==
    /\ clm.CLAIM_STATE = "none"
    /\ \E images \in 1..2 :
          clm' = [clm EXCEPT
                     !.views["prompt"] = IF images = 1 THEN "category"
                                         ELSE "multi",
                     !.first = "waiting",
                     !.firstShown = TRUE,
                     !.CLAIM_STATE = "open",
                     !.said = "none"]
    /\ UNCHANGED notClaim

\* the timeout of the first prompt's view
FirstTimeout ==
    /\ clm.first = "waiting"
    /\ clm' = [on_timeout(clm, TRUE) EXCEPT
                  !.first = "timedout",
                  !.views["prompt"] = IF clm.firstShown THEN "none"
                                      ELSE clm.views["prompt"],
                  !.firstShown = FALSE]
    /\ UNCHANGED notClaim

\* the timeout of a later view: of a picker (announce=False), a review or a
\* Try again button
ViewTimeout ==
    /\ \E m \in ClaimMessages :
          /\ clm.views[m] # "none"
          /\ ~(m = "prompt" /\ clm.firstShown)
          /\ clm' = [on_timeout(clm, FALSE) EXCEPT !.views[m] = "none"]
    /\ UNCHANGED notClaim

(* MultiImageChoice.use_first, ImageSelect._on_pick                        *)
UseFirst ==
    /\ \E m \in ClaimMessages :
          /\ clm.views[m] \in {"multi", "image"}
          /\ clm' = Show(clm, m, "category")
    /\ UNCHANGED notClaim

(* MultiImageChoice.choose_image                                           *)
ChooseImage ==
    /\ \E m \in ClaimMessages :
          /\ clm.views[m] = "multi"
          /\ clm' = Show(clm, m, "image")
    /\ UNCHANGED notClaim

(* MultiImageChoice.use_all: the view is taken off the message and the     *)
(* category picker comes as a follow-up                                    *)
UseAll ==
    /\ \E m \in ClaimMessages :
          /\ clm.views[m] = "multi"
          /\ clm' = Show(Show(clm, m, "none"), "followup", "category")
    /\ UNCHANGED notClaim

(* CategoryPicker._pick_cat                                                *)
PickCat ==
    /\ \E m \in ClaimMessages :
          /\ clm.views[m] = "category"
          /\ clm' = Show(clm, m, "role")
    /\ UNCHANGED notClaim

(* RolePicker's Back button                                                *)
RoleBack ==
    /\ \E m \in ClaimMessages :
          /\ clm.views[m] = "role"
          /\ clm' = Show(clm, m, "category")
    /\ UNCHANGED notClaim

(* MultiImageChoice.cancel, CategoryPicker._cancel, RolePicker's _cancel   *)
ClaimCancel ==
    /\ \E m \in ClaimMessages :
          /\ clm.views[m] \in {"multi", "category", "role"}
          /\ clm' = Cancel(clm, m)
    /\ UNCHANGED notClaim

(* RolePicker._on_pick                                                     *)
RolePick ==
    /\ \E m \in ClaimMessages : clm.views[m] = "role"
    /\ \E outcome \in PickOutcomes :
          clm' = IF outcome = "noselection"
                 THEN [clm EXCEPT !.said = "none"]
                 ELSE process_claim(clm, outcome)
    /\ UNCHANGED notClaim

(* GKReview.approve, GKReview.grant_other and its _on_pick                 *)
GKApprove ==
    /\ clm.views["review"] = "gk"
    /\ \E outcome \in GrantOutcomes :
          clm' = [clm EXCEPT !.views["review"] = "none",
                             !.said = IF outcome = "grant" THEN "approved"
                                      ELSE "none"]
    /\ UNCHANGED notClaim

(* GKReview.deny; the edit of the review message may fail                  *)
GKDeny ==
    /\ clm.views["review"] = "gk"
    /\ \E edited \in BOOLEAN :
          clm' = IF edited
                 THEN [clm EXCEPT !.views["review"] = "tryagain",
                                  !.CLAIM_STATE = "closed",
                                  !.said = "denied"]
                 ELSE [clm EXCEPT !.said = "none"]
    /\ UNCHANGED notClaim

(* TryAgainView.try_again: the review message becomes a category picker    *)
TryAgain ==
    /\ clm.views["review"] = "tryagain"
    /\ clm' = Show(Show(clm, "review", "none"), "retry", "category")
    /\ UNCHANGED notClaim

ClaimNext ==
    \/ ClaimOnMessage
    \/ FirstTimeout
    \/ ViewTimeout
    \/ UseFirst
    \/ ChooseImage
    \/ UseAll
    \/ PickCat
    \/ RoleBack
    \/ ClaimCancel
    \/ RolePick
    \/ GKApprove
    \/ GKDeny
    \/ TryAgain

ClaimStart ==
    /\ ClaimInit
    /\ NormOff
    /\ PipeOff
    /\ OcrOff
    /\ ThrOff
    /\ PrepOff
    /\ SplitOff
    /\ CogOff
    /\ ScaleOff
    /\ FeatOff
    /\ ResOff
    /\ TessOff
    /\ ReadIntOff
    /\ MatchOff
    /\ PassOff
    /\ RoisOff
    /\ LevelOff
    /\ GroupOff
    /\ WatchOff
    /\ PanelOff

SpecClaim == ClaimStart /\ [][ClaimNext]_vars

-----------------------------------------------------------------------------
(* level_whisper_bot.py: the buffer of one user in a guild that has a       *)
(* levels channel.  entry says that buffers[guild][user] exists, roles is   *)
(* its "roles" set, task its "task": sleeping through the window, sending   *)
(* (flush_user_buffer has taken the roles and awaits levels.send, the       *)
(* request not yet with Discord), posted (Discord has posted the message,   *)
(* the task has not resumed yet) or done.  sending is the roles of the      *)
(* message under way, levels the messages in the levels channel, added the  *)
(* roles the handlers have collected so far, given the names they have      *)
(* been handed.                                                             *)

\* three of the roles of CLUSTERS, none of them in SPECIAL_CHAMPIONS
LevelRoles == {"Hydra Normal", "Hydra Hard", "Doomtower Normal"}

\* `entry and "task" in entry and not entry["task"].done()`
Pending(b) == b.entry /\ b.task \in {"sleeping", "sending", "posted"}

\* the handlers' buffering of to_collect / recognized: the pending task is
\* cancelled, and with it the rest of flush_user_buffer if it had begun
Collect(b, recognized) ==
    [b EXCEPT !.entry = TRUE,
              !.roles = IF Pending(b) THEN b.roles \cup recognized
                        ELSE recognized,
              !.task = "sleeping",
              !.sending = {},
              !.added = b.added \cup recognized]

LevelInit == lvl = NoLevel

\* two of the names of SPECIAL_CHAMPIONS
SPECIAL_CHAMPIONS == {"The Angel", "The Medusa"}

\* the names a handler may be handed: roles of a cluster, special
\* champions, and a role the bot knows nothing of
LevelNames == LevelRoles \cup SPECIAL_CHAMPIONS \cup {"Member"}

\* the mutant of is_special: no name is special
is_special_never(role_name) == FALSE

(* is_special, and on_member_update's `rn in SPECIAL_CHAMPIONS`            *)
is_special(role_name) == role_name \in SPECIAL_CHAMPIONS

\* `rn.lower() in ROLE_TO_CLUSTER`
InCluster(role_name) == role_name \in LevelRoles

\* one msg_special message for each of the names, sent to the levels channel
RECURSIVE SendSpecials(_, _)
SendSpecials(levels, names) ==
    IF names = {} THEN levels
    ELSE LET rn == CHOOSE x \in names : TRUE
         IN  SendSpecials(Append(levels, {rn}), names \ {rn})

\* the handlers' loop over the role names and what follows it: a special
\* name is announced at once, a cluster's role is buffered, any other
\* name is passed over
HandleNames(b, names) ==
    LET specials == {rn \in names : is_special(rn)}
        to_collect == {rn \in names : ~is_special(rn) /\ InCluster(rn)}
        sent == [b EXCEPT !.levels = SendSpecials(b.levels, specials),
                          !.given = b.given \cup names]
    IN  IF to_collect = {} THEN sent ELSE Collect(sent, to_collect)

(* on_message: an audit-log post that names roles given to the user        *)
LevelOnMessage ==
    /\ \E role_names \in (SUBSET (LevelNames \ lvl.given)) \ {{}} :
          lvl' = HandleNames(lvl, role_names)
    /\ UNCHANGED notLevel

(* on_member_update: roles were added to the user                          *)
LevelOnMemberUpdate ==
    /\ \E added \in (SUBSET (LevelNames \ lvl.given)) \ {{}} :
          lvl' = HandleNames(lvl, added)
    /\ UNCHANGED notLevel

\* _delayed_flush after the sleep: flush_user_buffer up to `await
\* send_levels`
FlushBegin ==
    /\ lvl.task = "sleeping"
    /\ lvl' = IF ~lvl.entry THEN [lvl EXCEPT !.task = "done"]
              ELSE [lvl EXCEPT !.task = "sending", !.sending = lvl.roles]
    /\ UNCHANGED notLevel

\* Discord posts the message
LevelsSend ==
    /\ lvl.task = "sending"
    /\ lvl' = [lvl EXCEPT !.task = "posted",
                          !.levels = Append(lvl.levels, lvl.sending)]
    /\ UNCHANGED notLevel

\* flush_user_buffer after the send: gbuf.pop(user_id, None)
FlushEnd ==
    /\ lvl.task = "posted"
    /\ lvl' = [lvl EXCEPT !.task = "done", !.entry = FALSE, !.roles = {},
                          !.sending = {}]
    /\ UNCHANGED notLevel

LevelNext ==
    \/ LevelOnMessage
    \/ LevelOnMemberUpdate
    \/ FlushBegin
    \/ LevelsSend
    \/ FlushEnd

LevelStart ==
    /\ LevelInit
    /\ NormOff
    /\ PipeOff
    /\ OcrOff
    /\ ThrOff
    /\ PrepOff
    /\ SplitOff
    /\ CogOff
    /\ ScaleOff
    /\ FeatOff
    /\ ResOff
    /\ TessOff
    /\ ReadIntOff
    /\ MatchOff
    /\ PassOff
    /\ RoisOff
    /\ ClaimOff
    /\ GroupOff
    /\ WatchOff
    /\ PanelOff

SpecLevel == LevelStart /\ [][LevelNext]_vars

-----------------------------------------------------------------------------
(* c1c_claims_appreciation.py: the grouping buffer of one user in a guild   *)
(* whose levels channel is configured.  entry says that GROUP[guild][user]  *)
(* exists, items is its "items" list and task its "task" (0: None).  The    *)
(* k-th successful finalize_grant buffers achievement k and creates task k; *)
(* tasks[k] is that task: waiting (for its sleep, or for its first run if   *)
(* the window is 0), cancelled, flushing (it has popped the entry and       *)
(* awaits the send) or done; flight[k] is the items it has taken, praise    *)
(* the praise messages in the levels channel.                               *)

\* the grants of one behaviour
MaxGrants == 4

\* the mutant of PopEntry: the entry stays where it is
KeepEntry(g) == g

\* `entry = GROUP.get(guild.id, {}).pop(user_id, None)`
PopEntry(g) == [g EXCEPT !.entry = FALSE, !.items = <<>>, !.task = 0]

(* _buffer_item                                                            *)
_buffer_item(g, ach) ==
    LET e == IF g.entry THEN g
             ELSE [g EXCEPT !.entry = TRUE, !.items = <<>>, !.task = 0]
        k == Len(g.tasks) + 1
    IN  [e EXCEPT !.items = Append(e.items, ach),
                  !.tasks = Append(
                      IF e.task # 0 THEN [e.tasks EXCEPT ![e.task] = "cancelled"]
                      ELSE e.tasks,
                      "waiting"),
                  !.flight = Append(e.flight, <<>>),
                  !.task = k]

GroupInit == grp = NoGroup

(* finalize_grant has added the role: _buffer_item                         *)
GroupBufferItem ==
    /\ Len(grp.tasks) < MaxGrants
    /\ grp' = _buffer_item(grp, Len(grp.tasks) + 1)
    /\ UNCHANGED notGroup

\* _delay after the sleep: _flush_group up to its first await
GroupFlushPop ==
    /\ \E k \in 1..Len(grp.tasks) :
          /\ grp.tasks[k] = "waiting"
          /\ grp' = IF ~grp.entry
                    THEN [grp EXCEPT !.tasks[k] = "done"]
                    ELSE [PopEntry(grp) EXCEPT !.tasks[k] = "flushing",
                                               !.flight[k] = grp.items]
    /\ UNCHANGED notGroup

\* _flush_group: safe_send_embed
GroupPraise ==
    /\ \E k \in 1..Len(grp.tasks) :
          /\ grp.tasks[k] = "flushing"
          /\ grp' = [grp EXCEPT !.tasks[k] = "done",
                                !.praise = Append(grp.praise, grp.flight[k])]
    /\ UNCHANGED notGroup

GroupNext == GroupBufferItem \/ GroupFlushPop \/ GroupPraise

GroupStart ==
    /\ GroupInit
    /\ NormOff
    /\ PipeOff
    /\ OcrOff
    /\ ThrOff
    /\ PrepOff
    /\ SplitOff
    /\ CogOff
    /\ ScaleOff
    /\ FeatOff
    /\ ResOff
    /\ TessOff
    /\ ReadIntOff
    /\ MatchOff
    /\ PassOff
    /\ RoisOff
    /\ ClaimOff
    /\ LevelOff
    /\ WatchOff
    /\ PanelOff

SpecGroup == GroupStart /\ [][GroupNext]_vars

-----------------------------------------------------------------------------
(* c1c_claims_appreciation.py: the watchdog.  now is _now() in seconds,     *)
(* moving in steps of WATCHDOG_CHECK_SEC; ticked says that the watchdog has *)
(* run at this time.  link is the gateway connection as it is, downSince    *)
(* the time it went down; BOT_CONNECTED, _LAST_DISCONNECT_TS and            *)
(* _LAST_EVENT_TS are the module's globals; restarted tells why the         *)
(* watchdog ended the process ("no": it has not).                           *)

WATCHDOG_CHECK_SEC == 60

WATCHDOG_MAX_DISCONNECT_SEC == 600

\* the idle time after which a connected bot counts as a zombie
ZombieIdleSec == 600

\* the watchdog's runs in one behaviour
MaxTicks == 14

\* `_LAST_DISCONNECT_TS = _now()`, `_LAST_EVENT_TS = _now()`
Stamp(old, now) == now

(* on_connect, on_resumed                                                  *)
on_connect(w) ==
    [w EXCEPT !.BOT_CONNECTED = TRUE,
              !._LAST_EVENT_TS = Stamp(w._LAST_EVENT_TS, w.now)]

(* on_disconnect                                                           *)
on_disconnect(w) ==
    [w EXCEPT !.BOT_CONNECTED = FALSE,
              !._LAST_DISCONNECT_TS = Stamp(w._LAST_DISCONNECT_TS, w.now)]

(* _watchdog, latency_bad being `latency is None or latency > 10`          *)
_watchdog(w, latency_bad) ==
    IF w.BOT_CONNECTED
    THEN IF w._LAST_EVENT_TS # 0 /\ w.now - w._LAST_EVENT_TS > ZombieIdleSec
             /\ latency_bad
         THEN [w EXCEPT !.restarted = "zombie"]
         ELSE w
    ELSE IF w._LAST_DISCONNECT_TS = 0
         THEN [w EXCEPT !._LAST_DISCONNECT_TS = w.now]
         ELSE IF w.now - w._LAST_DISCONNECT_TS > WATCHDOG_MAX_DISCONNECT_SEC
         THEN [w EXCEPT !.restarted = "disconnected"]
         ELSE w

\* on_ready has run and has started the watchdog
WatchInit ==
    wd = [NoWatch EXCEPT !.now = WATCHDOG_CHECK_SEC, !.BOT_CONNECTED = TRUE,
                         !._LAST_EVENT_TS = WATCHDOG_CHECK_SEC]

\* WATCHDOG_CHECK_SEC seconds pass
WatchSleep ==
    /\ wd.restarted = "no"
    /\ wd.ticked
    /\ wd.now < MaxTicks * WATCHDOG_CHECK_SEC
    /\ wd' = [wd EXCEPT !.now = wd.now + WATCHDOG_CHECK_SEC, !.ticked = FALSE]
    /\ UNCHANGED notWatch

\* the loop runs _watchdog
WatchTick ==
    /\ wd.restarted = "no"
    /\ ~wd.ticked
    /\ \E latency_bad \in BOOLEAN :
          wd' = [_watchdog(wd, latency_bad) EXCEPT !.ticked = TRUE]
    /\ UNCHANGED notWatch

\* the connection is lost: on_disconnect
WatchLinkDown ==
    /\ wd.restarted = "no"
    /\ wd.link = "up"
    /\ wd' = [on_disconnect(wd) EXCEPT !.link = "down", !.downSince = wd.now]
    /\ UNCHANGED notWatch

\* an attempt to reconnect fails: on_disconnect once more
WatchRetryFailed ==
    /\ wd.restarted = "no"
    /\ wd.link = "down"
    /\ wd' = on_disconnect(wd)
    /\ UNCHANGED notWatch

\* the connection is back: on_connect or on_resumed
WatchLinkUp ==
    /\ wd.restarted = "no"
    /\ wd.link = "down"
    /\ wd' = [on_connect(wd) EXCEPT !.link = "up"]
    /\ UNCHANGED notWatch

(* on_socket_response: a gateway event                                     *)
WatchSocketEvent ==
    /\ wd.restarted = "no"
    /\ wd.link = "up"
    /\ wd' = [wd EXCEPT !._LAST_EVENT_TS = Stamp(wd._LAST_EVENT_TS, wd.now)]
    /\ UNCHANGED notWatch

WatchNext ==
    \/ WatchSleep
    \/ WatchTick
    \/ WatchLinkDown
    \/ WatchRetryFailed
    \/ WatchLinkUp
    \/ WatchSocketEvent

WatchStart ==
    /\ WatchInit
    /\ NormOff
    /\ PipeOff
    /\ OcrOff
    /\ ThrOff
    /\ PrepOff
    /\ SplitOff
    /\ CogOff
    /\ ScaleOff
    /\ FeatOff
    /\ ResOff
    /\ TessOff
    /\ ReadIntOff
    /\ MatchOff
    /\ PassOff
    /\ RoisOff
    /\ ClaimOff
    /\ LevelOff
    /\ GroupOff
    /\ PanelOff

SpecWatch == WatchStart /\ [][WatchNext]_vars

-----------------------------------------------------------------------------
(* cogs/shards/cog.py: the scan prompt under a posted shard screenshot and  *)
(* the ephemeral panel it opens.  prompt is the public prompt, shot the     *)
(* attachment, stack whether the OCR stack is there; cache is the entry of  *)
(* _ocr_cache for the message, runs the OCR calls made so far.  panel,      *)
(* owner, counts and preview are the panel, the user it was opened for,     *)
(* the `counts` its callbacks close over and the counts its text shows;     *)
(* modal, prefill and children are the form, saves and snapshot the         *)
(* append_snapshot calls, last the user and the button of the last step.    *)

\* the image author, a member with a staff-override role, anybody else
PanelUsers == {"author", "staff", "other"}

\* the Retry OCR clicks and the saves of one behaviour
MaxRetries == 2

MaxSaves == 2

\* what Retry finds in the attachment of an OCR that reads the counters
_ocr_prefill_reading(stack, s, readable) ==
    [n \in ShardNames |-> IF readable /\ s.seen # <<>> THEN 12 ELSE 0]

(* _ocr_prefill_from_attachment; readable: the attachment's bytes came     *)
_ocr_prefill_from_attachment(stack, s, readable) ==
    IF ~readable THEN [n \in ShardNames |-> 0]
    ELSE WithDefaults(extract_counts_from_image_bytes(stack, s).counts)

(* _has_any_role(inter.user, roles_staff_override)                         *)
_has_any_role(user) == user = "staff"

\* `inter.user.id != message.author.id and not _has_any_role(...)` negated
AuthorOrStaff(user) == user = "author" \/ _has_any_role(user)

\* the mutant of PanelOwner: the panel obeys everybody
PanelAnybody(user, owner) == TRUE

\* `i2.user.id != inter.user.id` negated
PanelOwner(user, owner) == user = owner

\* the step of a click that is turned away
TurnedAway(p, user, button) ==
    [p EXCEPT !.last = [user |-> user, button |-> button]]

PanelInit == pan = NoPanel

\* a screenshot is posted and the bot puts its prompt under it
PanelPost ==
    /\ pan.prompt = "none"
    /\ \E s \in {ShotBlank, ShotFive} : \E stack \in BOOLEAN :
          pan' = [NoPanel EXCEPT !.prompt = "shown", !.shot = s,
                                 !.stack = stack]
    /\ UNCHANGED notPanel

(* _scan_callback                                                          *)
PanelScan ==
    /\ pan.prompt = "shown"
    /\ pan.modal = "none"
    /\ \E user \in PanelUsers : \E readable \in BOOLEAN :
          pan' = IF ~AuthorOrStaff(user) THEN TurnedAway(pan, user, "scan")
                 ELSE LET hit == pan.cache # NoCounts
                          counts ==
                              IF hit THEN pan.cache
                              ELSE [vals |-> _ocr_prefill_from_attachment(
                                                 pan.stack, pan.shot, readable),
                                    run |-> pan.runs + 1]
                      IN  [TurnedAway(pan, user, "scan") EXCEPT
                              !.cache = counts,
                              !.runs = IF hit THEN pan.runs ELSE pan.runs + 1,
                              !.panel = "open",
                              !.owner = user,
                              !.counts = counts,
                              !.preview = counts]
    /\ UNCHANGED notPanel

(* _dismiss_callback                                                       *)
PanelDismiss ==
    /\ pan.prompt = "shown"
    /\ pan.modal = "none"
    /\ \E user \in PanelUsers :
          pan' = IF ~AuthorOrStaff(user) THEN TurnedAway(pan, user, "dismiss")
                 ELSE [TurnedAway(pan, user, "dismiss") EXCEPT
                          !.prompt = "deleted"]
    /\ UNCHANGED notPanel

(* _use_counts up to modal.wait()                                          *)
PanelUse ==
    /\ pan.panel = "open"
    /\ pan.modal = "none"
    /\ \E user \in PanelUsers :
          pan' = IF ~PanelOwner(user, pan.owner)
                 THEN TurnedAway(pan, user, "use")
                 ELSE [TurnedAway(pan, user, "use") EXCEPT
                          !.modal = "_use_counts",
                          !.prefill = pan.counts,
                          !.children = SetCountsModal(pan.counts.vals)]
    /\ UNCHANGED notPanel

(* _manual up to modal.wait()                                              *)
PanelManual ==
    /\ pan.panel = "open"
    /\ pan.modal = "none"
    /\ \E user \in PanelUsers :
          pan' = IF ~PanelOwner(user, pan.owner)
                 THEN TurnedAway(pan, user, "manual")
                 ELSE [TurnedAway(pan, user, "manual") EXCEPT
                          !.modal = "_manual",
                          !.prefill = NoCounts,
                          !.children = SetCountsModal(<<>>)]
    /\ UNCHANGED notPanel

\* the rest of _use_counts and _manual: the form comes back as it was shown
\* or with a 7 in its first field; parse, the guard, append_snapshot
PanelSubmit ==
    /\ pan.modal # "none"
    /\ \E typed \in {pan.children, [pan.children EXCEPT ![1] = <<"7">>]} :
          LET p == parse_counts(typed)
              parsed == IF ~p.raised THEN p.vals
                        ELSE IF pan.modal = "_use_counts" THEN pan.counts.vals
                        ELSE <<>>
              back == [pan EXCEPT !.modal = "none", !.children = typed,
                                  !.last = [user |-> pan.owner,
                                            button |-> "submit"]]
          IN  /\ any_values(parsed) => pan.saves < MaxSaves
              /\ pan' = IF any_values(parsed)
                         THEN [back EXCEPT !.saves = pan.saves + 1,
                                           !.snapshot = parsed]
                         ELSE back
    /\ UNCHANGED notPanel

(* _retry                                                                  *)
PanelRetry ==
    /\ pan.panel = "open"
    /\ pan.modal = "none"
    /\ pan.runs <= MaxRetries
    /\ \E user \in PanelUsers : \E readable \in BOOLEAN :
          pan' = IF ~PanelOwner(user, pan.owner)
                 THEN TurnedAway(pan, user, "retry")
                 ELSE LET new_counts ==
                              [vals |-> _ocr_prefill_from_attachment(
                                            pan.stack, pan.shot, readable),
                               run |-> pan.runs + 1]
                      IN  [TurnedAway(pan, user, "retry") EXCEPT
                              !.cache = new_counts,
                              !.runs = pan.runs + 1,
                              !.preview = new_counts]
    /\ UNCHANGED notPanel

(* _close                                                                  *)
PanelClose ==
    /\ pan.panel = "open"
    /\ pan.modal = "none"
    /\ \E user \in PanelUsers :
          pan' = IF ~PanelOwner(user, pan.owner)
                 THEN TurnedAway(pan, user, "close")
                 ELSE [TurnedAway(pan, user, "close") EXCEPT
                          !.panel = "closed"]
    /\ UNCHANGED notPanel

PanelNext ==
    \/ PanelPost
    \/ PanelScan
    \/ PanelDismiss
    \/ PanelUse
    \/ PanelManual
    \/ PanelSubmit
    \/ PanelRetry
    \/ PanelClose

PanelStart ==
    /\ PanelInit
    /\ NormOff
    /\ PipeOff
    /\ OcrOff
    /\ ThrOff
    /\ PrepOff
    /\ SplitOff
    /\ CogOff
    /\ ScaleOff
    /\ FeatOff
    /\ ResOff
    /\ TessOff
    /\ ReadIntOff
    /\ MatchOff
    /\ PassOff
    /\ RoisOff
    /\ ClaimOff
    /\ LevelOff
    /\ GroupOff
    /\ WatchOff

SpecPanel == PanelStart /\ [][PanelNext]_vars

-----------------------------------------------------------------------------
(* The claims about the extraction pipeline.                               *)

\* read_counters has returned to its caller
ReadCountersReturned == pipePc = "returned" /\ call = "read_counters"

\* an entry point of cogs/shards/ocr.py has returned to its caller
OcrReturned == ocrPc = "returned"

AllZero == [n \in ShardNames |-> 0]

(* C1: whatever is located or read, the mapping read_counters returns has  *)
(* exactly the five shard-type keys.                                       *)
C1_AlwaysFiveKeys ==
    (ReadCountersReturned /\ ~res.raised) => DOMAIN res.counts = ShardNames

(* C2 as stated: the entry points of cogs/shards/ocr.py raise exactly when *)
(* the bytes cannot be decoded.                                            *)
C2_RaisesIffUndecodable ==
    (OcrReturned /\ ocrStack) => (ocrRes.raised <=> ~shot.decodable)

(* C2: no entry point of cogs/shards/ocr.py ever raises; on bytes that     *)
(* cannot be decoded extract_counts_from_image_bytes and                   *)
(* extract_counts_with_debug return an empty map (with no debug image) and *)
(* collect_debug_bundle returns None.                                      *)
C2_DecodeErrorSwallowed ==
    OcrReturned =>
        /\ ~ocrRes.raised
        /\ ~shot.decodable =>
              ocrRes = IF ocrCall = "collect_debug_bundle" THEN OcrNone
                       ELSE OcrEmpty

C2_Witness ==
    /\ OcrReturned
    /\ ocrStack
    /\ ~shot.decodable
    /\ shot.seen # <<>>
    /\ ocrCall = "extract_counts_from_image_bytes"
    /\ ocrRes = OcrEmpty

\* no icon of the image reaches the threshold, or no template was loaded
NoIconMatched ==
    \/ DOMAIN cacheTpl = {}
    \/ \A n \in ShardNames : \A k \in 1..Len(DefaultScales) :
          img.icons[n].scores[k] < DefaultThresh

\* read_counters was called on an image without icons and without text
PipeBlank == NoIconMatched /\ img.reads = AllReads(EngBlank)

\* the entry point was called on a decodable screenshot without text
OcrBlank ==
    /\ ocrStack
    /\ shot.decodable
    /\ ~shot.prepErr
    /\ shot.seen = <<>>
    /\ shot.micro = <<>>

(* C3 as stated: on a decodable image without icons and without numeric    *)
(* tokens every extraction call returns all five shard types with value 0. *)
C3_BlankGivesFiveZeros ==
    /\ (ReadCountersReturned /\ PipeBlank) =>
          ~res.raised /\ res.counts = AllZero
    /\ (OcrReturned /\ OcrBlank) =>
          ~ocrRes.raised /\ ~ocrRes.none /\ ocrRes.counts = AllZero

(* C3: on a decodable image without icons and without numeric tokens no    *)
(* extraction call raises; read_counters, extract_counts_with_debug and    *)
(* collect_debug_bundle return all five shard types with value 0, and      *)
(* extract_counts_from_image_bytes returns the empty map.                  *)
C3_BlankGivesZerosOrEmpty ==
    /\ (ReadCountersReturned /\ PipeBlank) =>
          ~res.raised /\ res.counts = AllZero
    /\ (OcrReturned /\ OcrBlank) =>
          /\ ~ocrRes.raised
          /\ ~ocrRes.none
          /\ ocrRes.counts = IF ocrCall = "extract_counts_from_image_bytes"
                             THEN EmptyCounts ELSE AllZero

C3_Witness ==
    /\ OcrReturned
    /\ OcrBlank
    /\ ocrCall = "extract_counts_from_image_bytes"
    /\ ocrRes = OcrEmpty

(* C4: find_counter_rois returns exactly five regions, one for each shard  *)
(* type.                                                                   *)
C4_FiveRegions ==
    (ReadCountersReturned /\ img.h > 0 /\ img.w > 0) =>
        /\ Len(regions) = Len(BAND_ORDER)
        /\ {regions[i].name : i \in 1..Len(regions)} = ShardNames

\* the icons matched at or above the threshold: a template is loaded and, at
\* a scale at which it fits the image, the match score reaches the threshold
IconsMatched ==
    {n \in DOMAIN cacheTpl :
        \E k \in 1..Len(DefaultScales) :
            /\ img.icons[n].scores[k] >= DefaultThresh
            /\ Max2(MinTplSide, (cacheTpl[n].w * DefaultScales[k]) \div 100)
                   <= img.w
            /\ Max2(MinTplSide, (cacheTpl[n].h * DefaultScales[k]) \div 100)
                   <= img.h}

(* C5: the regions of one find_counter_rois call are all equal bands if    *)
(* fewer than 3 icons are matched, and all template-derived otherwise.     *)
C5_AllOrNothing ==
    ReadCountersReturned =>
        IF Cardinality(IconsMatched) < MinTemplateRois
        THEN \A i \in 1..Len(regions) : regions[i].src = "band"
        ELSE \A i \in 1..Len(regions) : regions[i].src \in {"template", "corner"}

C5_Witness ==
    /\ ReadCountersReturned
    /\ Cardinality(IconsMatched) = 2
    /\ Len(regions) = Len(BAND_ORDER)
    /\ \A i \in 1..Len(regions) : regions[i].src = "band"

\* what a returned mapping holds for a shard type: <<count>>, or <<>>
Entry(counts, n) == IF n \in DOMAIN counts THEN <<counts[n]>> ELSE <<>>

(* C6: changing what is read in one region changes what is returned for no *)
(* other shard type.                                                       *)
C6_OthersUnchanged ==
    /\ (ReadCountersReturned /\ twin.on) =>
          \A n \in ShardNames \ {twin.at} :
              Entry(res.counts, n) = Entry(twin.counts, n)
    /\ (OcrReturned /\ ocrTwin.on /\ ocrTwin.at \in ShardNames) =>
          \A n \in ShardNames \ {ocrTwin.at} :
              Entry(ocrRes.counts, n) = Entry(ocrTwin.res.counts, n)

\* engine answers with every call raising before digits are read
EngineFailures == {EngFail, EngCvFail, EngLateFail}

(* C7: an engine error or timeout never leaves the reader: read_counters   *)
(* and the entry points of cogs/shards/ocr.py return normally, and a       *)
(* region none of whose calls gave digits has count 0.                     *)
C7_EngineErrorsAbsorbed ==
    /\ ReadCountersReturned =>
          /\ ~res.raised
          /\ \A n \in DOMAIN res.counts :
                img.reads[n] \in EngineFailures => res.counts[n] = 0
    /\ OcrReturned =>
          /\ ~ocrRes.raised
          /\ ( /\ ocrStack
               /\ shot.decodable
               /\ ~shot.prepErr
               /\ shot.fail = AllScanCalls
               /\ shot.microFail = AllMicroCalls
               /\ ocrCall = "extract_counts_with_debug" ) =>
                 ocrRes.counts = AllZero /\ ocrRes.dbg # <<>>

C7_Witness ==
    /\ ReadCountersReturned
    /\ img.reads["Void"] = EngFail
    /\ res.counts["Void"] = 0
    /\ res.counts["Mystery"] = 12

(* C8: read_counters returns on an image what it returned on it the first  *)
(* time, whatever was called in between and whether or not the template    *)
(* cache was filled before the call.                                       *)
C8_SameResultAgain ==
    (ReadCountersReturned /\ img = pin /\ pinRes.valid) => res = pinRes.res

C8_Witness ==
    /\ ReadCountersReturned
    /\ img = pin
    /\ pinRes.again
    /\ Len(regions) = 3
    /\ res = pinRes.res

(* C9: load_templates is called at most once in the life of the process,   *)
(* and _TEMPLATE_CACHE is assigned at most once.                           *)
C9_LoadedAndSetOnce == loads <= 1 /\ writes <= 1

(* C10: every digit string d, rendered bare or grouped by ',', '.' or ' ', *)
(* is parsed by normalize_count and by _parse_num_token to the integer     *)
(* that d denotes.                                                         *)
C10_GroupedParsesToSameInt ==
    (normPc = "done" /\ dsrc # <<>>) =>
        /\ normCount = IntOf(dsrc)
        /\ parseNum = IntOf(dsrc)

C10_Witness ==
    /\ normPc = "done"
    /\ dsrc = <<"1", "6", "1", "0">>
    /\ sep = "."
    /\ tok = <<"1", ".", "6", "1", "0">>
    /\ normCount = 1610
    /\ parseNum = 1610

-----------------------------------------------------------------------------
(* The claims about tokens, band results and the debug entry points.       *)

\* the alphabetic characters _normalize_digits turns into digits
Confusable == {"l", "I", "O", "o"}

(* C11: a token made only of confusable alphabetic characters is rejected  *)
(* by the token filter of both passes and parsed to no count.              *)
C11_ConfusableRejected ==
    (normPc = "done" /\ tok # <<>> /\ \A i \in 1..Len(tok) : tok[i] \in Confusable)
        => /\ ~NumericToken(_normalize_digits(tok))
           /\ parseNum = 0

(* C12: in every band result of _read_band the confidence is -1 exactly   *)
(* when the value came from the legacy reader.                             *)
C12_MinusOneIffLegacy ==
    ReadCountersReturned =>
        \A i \in 1..Len(res.bands) :
            FracEq(res.bands[i].conf, FracMinusOne)
                <=> res.bands[i].reader = "legacy"

C12_Witness ==
    /\ ReadCountersReturned
    /\ \E i \in 1..Len(res.bands) :
          /\ res.bands[i].reader = "legacy"
          /\ res.bands[i].conf = FracMinusOne
          /\ res.bands[i].value = 1610
    /\ \E i \in 1..Len(res.bands) :
          /\ res.bands[i].reader = "data"
          /\ res.bands[i].value = 12

\* a debug entry point has returned on the bytes the primary entry point
\* read just before
DebugAfterPrimary == OcrReturned /\ ocrTwin.on /\ ocrTwin.at = "debug"

(* C13 as stated: the counts of the debug entry points are the counts of   *)
(* extract_counts_from_image_bytes on the same bytes.                      *)
C13_DebugCountsIdentical ==
    DebugAfterPrimary => ocrRes.counts = ocrTwin.res.counts

(* C13: on the same bytes extract_counts_from_image_bytes returns the      *)
(* counts of the debug entry points when one of them is positive, and the  *)
(* empty map when they are all zero or the debug entry point returns none. *)
C13_DebugCountsUnlessZero ==
    DebugAfterPrimary =>
        ocrTwin.res.counts =
            IF ocrRes.counts = EmptyCounts THEN EmptyCounts
            ELSE IF SumCounts(ocrRes.counts, ShardNames) = 0 THEN EmptyCounts
            ELSE ocrRes.counts

C13_Witness ==
    /\ DebugAfterPrimary
    /\ ocrCall = "collect_debug_bundle"
    /\ ocrStack
    /\ shot = ShotBlank
    /\ ocrRes.counts = AllZero
    /\ ocrTwin.res = OcrEmpty

\* a preprocessor has returned or raised
PrepDone == prep.pc = "done"

(* C14 as stated: for every crop the preprocessor returns an image of the  *)
(* crop's height and width, never raises and never returns an empty image. *)
C14_SameFootprint ==
    PrepDone =>
        /\ ~prep.out.raised
        /\ prep.out.image.h = prep.crop.h
        /\ prep.out.image.w = prep.crop.w
        /\ ~CropEmpty(prep.out.image)

(* C14: on a non-empty crop on which OpenCV does not fail, _prep_bin       *)
(* returns an image of the crop's height and width and preprocess_for_ocr  *)
(* one of twice the height and twice the width; on an empty crop, or when  *)
(* OpenCV fails, both raise.                                               *)
C14_FootprintKeptOrDoubled ==
    PrepDone =>
        IF CropEmpty(prep.crop) \/ prep.cvErr THEN prep.out.raised
        ELSE /\ ~prep.out.raised
             /\ ~CropEmpty(prep.out.image)
             /\ prep.out.image.h =
                   IF prep.fn = "_prep_bin" THEN prep.crop.h
                   ELSE 2 * prep.crop.h
             /\ prep.out.image.w =
                   IF prep.fn = "_prep_bin" THEN prep.crop.w
                   ELSE 2 * prep.crop.w

C14_Witness ==
    /\ PrepDone
    /\ prep.fn = "preprocess_for_ocr"
    /\ prep.crop = Crop(3, 4, 3)
    /\ ~prep.out.raised
    /\ prep.out.image = Crop(6, 8, 1)

\* _legacy_find_counter_rois has returned
LegacyDone == split.pc = "done" /\ split.fn = "_legacy_find_counter_rois"

\* five regions, named top to bottom in the order of the in-game list, each
\* starting where the one above ends, the first at the top and the last
\* ending at the bottom, each as wide as the image
FiveBandsCover ==
    /\ Len(split.rois) = 5
    /\ \A i \in 1..5 :
          /\ split.rois[i].name =
                <<"Mystery", "Ancient", "Void", "Primal", "Sacred">>[i]
          /\ split.rois[i].x = 0
          /\ split.rois[i].w = split.w
          /\ split.rois[i].h >= 0
          /\ split.rois[i].y =
                IF i = 1 THEN 0
                ELSE split.rois[i - 1].y + split.rois[i - 1].h
    /\ split.rois[5].y + split.rois[5].h = split.h

(* C15 as stated: for every image the equal-band fallback returns five     *)
(* regions in the order of the in-game list, contiguous, not overlapping   *)
(* and covering the image's height.                                        *)
C15_AlwaysFiveBands == LegacyDone => FiveBandsCover

(* C15: for every image with at least one pixel the equal-band fallback    *)
(* returns five regions in the order of the in-game list, contiguous, not  *)
(* overlapping and covering the image's height; for an empty image it      *)
(* returns no region.  In _read_counts_from_roi_impl a token whose centre  *)
(* line is inside the crop is in exactly one of the five bands.            *)
C15_FiveBandsUnlessEmpty ==
    /\ LegacyDone =>
          IF split.h > 0 /\ split.w > 0 THEN FiveBandsCover
          ELSE split.rois = <<>>
    /\ (split.pc = "done" /\ split.fn = "_read_counts_from_roi_impl"
          /\ split.cy < split.h) => Cardinality(split.bands) = 1

C15_Witness ==
    /\ LegacyDone
    /\ split.h = 7
    /\ split.w = 2
    /\ Len(split.rois) = 5
    /\ split.rois[4].h = 1
    /\ split.rois[5].y = 4
    /\ split.rois[5].h = 3

\* the shard types whose icon file is missing or unreadable
NotLoadable == {n \in ShardNames : disk[n] # "ok"}

\* the names of match_icons' hits on the image, with the cached templates
HitNames ==
    {h.name : h \in {match_icons(img, cacheTpl, DefaultScales,
                                 DefaultThresh)[i] :
                        i \in 1..Len(match_icons(img, cacheTpl, DefaultScales,
                                                 DefaultThresh))}}

(* C16: a shard type whose icon file is missing or unreadable has no       *)
(* template, is never among the template-match hits and has no template    *)
(* region; the call does not raise, and with fewer than three matches left *)
(* the locator returns the equal bands.                                    *)
C16_MissingTemplateDegrades ==
    (ReadCountersReturned /\ NotLoadable # {}) =>
        /\ ~res.raised
        /\ DOMAIN cacheTpl = ShardNames \ NotLoadable
        /\ HitNames \cap NotLoadable = {}
        /\ \A i \in 1..Len(regions) :
              regions[i].name \in NotLoadable => regions[i].src = "band"
        /\ Cardinality(HitNames) < 3 =>
              /\ Len(regions) = 5
              /\ \A i \in 1..Len(regions) : regions[i].src = "band"

C16_Witness ==
    /\ ReadCountersReturned
    /\ disk["Void"] = "unreadable"
    /\ disk["Primal"] = "missing"
    /\ \A n \in ShardNames : img.icons[n].scores = ScoresClear
    /\ img.h = 70
    /\ HitNames = {"Mystery", "Ancient"}
    /\ Len(regions) = 5
    /\ \A i \in 1..Len(regions) : regions[i].src = "band"

(* C17: in each of the three flows (Use these counts, Manual entry,        *)
(* !shards set) the count map handed to append_snapshot has at least one   *)
(* value greater than 0.                                                    *)
C17_NoAllZeroSnapshot ==
    cog.saved =>
        /\ cog.flow \in CogFlows
        /\ \E k \in DOMAIN cog.snapshot : cog.snapshot[k] > 0

C17_Witness ==
    /\ cog.saved
    /\ cog.flow = "_use_counts"
    /\ parse_counts(cog.children).raised
    /\ cog.snapshot = [n \in ShardNames |-> IF n = "Void" THEN 3 ELSE 0]

(* C18: the scale factor depends on the width alone: 2.0 below 900, 1.5    *)
(* from 900 up to but not including 1300, 1.0 from 1300 on (in tenths:     *)
(* 20, 15, 10), whatever the height; the image is resized by that factor.  *)
C18_ScaleByWidth ==
    scal.pc = "done" =>
        /\ scal.w < 900 => scal.scale = 20
        /\ (900 <= scal.w /\ scal.w < 1300) => scal.scale = 15
        /\ scal.w >= 1300 => scal.scale = 10
        /\ scal.base = [w |-> (scal.w * scal.scale) \div 10,
                        h |-> (scal.h * scal.scale) \div 10]

C18_Witness ==
    /\ scal.pc = "done"
    /\ scal.w = 900
    /\ scal.h = 899
    /\ scal.scale = 15
    /\ scal.base = [w |-> 1350, h |-> 1348]

\* the supplied mapping as a map from its keys to its values
RECURSIVE AsMap(_)
AsMap(items) ==
    IF items = <<>> THEN <<>>
    ELSE LET before == AsMap(SubSeq(items, 1, Len(items) - 1))
             it == items[Len(items)]
         IN  [k \in DOMAIN before \cup {it.key} |->
                 IF k = it.key THEN it.value ELSE before[k]]

\* the items of a supplied mapping whose key, stripped, is k
ItemsFor(items, k) ==
    {i \in 1..Len(items) : items[i].key # NoneKey /\ Strip(items[i].key) = k}

LastFor(items, k) ==
    items[CHOOSE i \in ItemsFor(items, k) :
              \A j \in ItemsFor(items, k) : j <= i].value

\* the keys a pair of supplied mappings gives
KeysOf(items) ==
    {Strip(items[i].key) : i \in {j \in 1..Len(items) : items[j].key # NoneKey}}
        \ {<<>>}

(* C19 as stated: the active map is the mapping last supplied as defaults, *)
(* overlaid by the mapping last supplied as overrides, and is_enabled is   *)
(* False for every name that is not a key of that map.                     *)
C19_ActiveIsSuppliedOverlay ==
    /\ [k \in DOMAIN feat.toggles |-> PyBool(feat.toggles[k])]
           = Merged(AsMap(feat.lastDefaults), AsMap(feat.lastOverrides))
    /\ (feat.pc = "asked" /\ feat.name \notin DOMAIN feat.toggles)
           => ~feat.enabled

(* C19: after any sequence of calls the active map holds, for each key     *)
(* that is the stripped, non-blank key of an item last supplied as         *)
(* defaults or overrides, the coerced value of the override if there is    *)
(* one and of the default otherwise; an omitted argument leaves the one    *)
(* supplied before in effect; get_feature_toggles returns that map; and    *)
(* is_enabled is the map's value at the stripped name, False when the      *)
(* stripped name is blank or not a key.                                    *)
C19_ActiveIsNormalizedOverlay ==
    /\ DOMAIN feat.toggles
           = KeysOf(feat.lastDefaults) \cup KeysOf(feat.lastOverrides)
    /\ \A k \in DOMAIN feat.toggles :
          feat.toggles[k] =
              IF k \in KeysOf(feat.lastOverrides)
              THEN _to_bool(LastFor(feat.lastOverrides, k))
              ELSE _to_bool(LastFor(feat.lastDefaults, k))
    /\ feat.pc = "got" => feat.got = feat.toggles
    /\ feat.pc = "asked" =>
          LET key == IF feat.name = NoneKey THEN <<>> ELSE Strip(feat.name)
          IN  /\ key \notin DOMAIN feat.toggles => ~feat.enabled
              /\ key \in DOMAIN feat.toggles
                     => feat.enabled = feat.toggles[key]

C19_Witness ==
    /\ feat.calls = 3
    /\ feat.lastDefaults = <<Item(<<"a">>, PyBool(TRUE)),
                             Item(<<"a", " ">>, PyBool(FALSE))>>
    /\ feat.lastOverrides = <<Item(<<" ", "a", " ">>, PyStr(<<"Y", "e", "s">>))>>
    /\ feat.toggles = [k \in {<<"a">>} |-> TRUE]
    /\ feat.pc = "asked"
    /\ feat.name = <<" ", "a">>
    /\ feat.enabled

(* C20: a screenshot and the same screenshot at another resolution give    *)
(* the same counts for the five shard types.                               *)
C20_SameCountsAtBothResolutions ==
    rsl.pc = "both" =>
        /\ ~rsl.first.raised
        /\ ~rsl.second.raised
        /\ rsl.second.counts = rsl.first.counts

\* the same holds while the icons stay within the sweep at both resolutions
SameCountsWithinSweep ==
    (rsl.pc = "both"
        /\ (\A i \in 1..Len(rsl.regions) : rsl.regions[i].src # "band")
        /\ (\A j \in 1..Len(rsl.regions2) : rsl.regions2[j].src # "band"))
        => rsl.second.counts = rsl.first.counts

-----------------------------------------------------------------------------
(* The claims about the readers' retries and choices.                      *)

TessReturned == tess.pc = "returned" /\ ~tess.empty

Invoked(cfg) == \E i \in 1..Len(tess.calls) : tess.calls[i] = cfg

\* an attempt that gave no number-shaped text, an exception included
NoNumber(outcome) == ~_looks_like_number(AttemptText(outcome))

ConfigOrder == <<"primary", "fallback", "single">>

\* the configurations were invoked in the fixed order, each at most once
InOrder == tess.calls = SubSeq(ConfigOrder, 1, Len(tess.calls))

\* the text of the first number-shaped read among the three, if there is one
FirstNumber ==
    IF ~NoNumber(tess.eng.prim) THEN AttemptText(tess.eng.prim)
    ELSE IF ~NoNumber(tess.eng.fb) THEN AttemptText(tess.eng.fb)
    ELSE AttemptText(tess.eng.single)

(* C21 as stated: the configurations are tried in the order primary,       *)
(* fallback, single-character (Sacred only), a later one if and only if    *)
(* every earlier attempt gave no number-shaped text, an engine error       *)
(* included, and the first number-shaped read is returned.                 *)
C21_RetryIffNoNumberYet ==
    TessReturned =>
        /\ InOrder
        /\ Invoked("primary")
        /\ Invoked("fallback") <=> NoNumber(tess.eng.prim)
        /\ Invoked("single") <=>
              /\ tess.band = "Sacred"
              /\ NoNumber(tess.eng.prim)
              /\ NoNumber(tess.eng.fb)
        /\ (\E i \in 1..Len(tess.calls) :
               ~NoNumber(tess.eng[IF i = 1 THEN "prim"
                                  ELSE IF i = 2 THEN "fb" ELSE "single"]))
              => tess.text = FirstNumber

(* C21: on an image with pixels the primary configuration is tried first;  *)
(* an exception in it ends the call with the empty text and no retry;      *)
(* otherwise the fallback is tried if and only if the primary text is not  *)
(* number-shaped, and the single-character configuration if and only if    *)
(* the band is Sacred and the fallback was tried and gave no number-shaped *)
(* text (an exception included); the text returned is that of the last     *)
(* configuration tried, which is the first number-shaped read if any is.   *)
C21_RetryUnlessPrimaryRaised ==
    TessReturned =>
        /\ InOrder
        /\ Invoked("primary")
        /\ tess.eng.prim.err => (tess.calls = <<"primary">> /\ tess.text = <<>>)
        /\ Invoked("fallback") <=>
              (~tess.eng.prim.err /\ NoNumber(tess.eng.prim))
        /\ Invoked("single") <=>
              /\ tess.band = "Sacred"
              /\ Invoked("fallback")
              /\ NoNumber(tess.eng.fb)
        /\ tess.text =
              AttemptText(tess.eng[IF Len(tess.calls) = 1 THEN "prim"
                                   ELSE IF Len(tess.calls) = 2 THEN "fb"
                                   ELSE "single"])
        /\ (\A i \in 1..(Len(tess.calls) - 1) :
               NoNumber(tess.eng[IF i = 1 THEN "prim" ELSE "fb"]))
        /\ tess.text = tesseract_read(tess.eng, tess.band)

C21_Witness ==
    /\ TessReturned
    /\ tess.band = "Sacred"
    /\ tess.eng = [prim |-> Txt(<<"x">>), fb |-> TxtErr, single |-> Txt(<<"7">>)]
    /\ tess.calls = ConfigOrder
    /\ tess.text = <<"7">>

\* a confidence that is not worse than another
NotWorse(a, b) == ~FracGt(b, a)

\* the strict pass dropped a row: one is below the confidence floor
RowDropped == \E i \in 1..Len(rint.all) : rint.all[i].conf < CONF_FLOOR

(* C22: the lenient pass runs only when the strict pass dropped a row      *)
(* (and then always); of the two candidates the longer is returned when    *)
(* its confidence is not worse than the other's; a strict candidate that   *)
(* is not empty is never replaced by a shorter lenient one.                *)
C22_LongerCandidatePreferred ==
    rint.pc = "returned" =>
        /\ rint.lenientRun <=> RowDropped
        /\ ~rint.lenientRun => (rint.cand_b = <<>> /\ rint.out.raw = rint.cand_a)
        /\ (Len(rint.cand_b) > Len(rint.cand_a)
               /\ NotWorse(rint.conf_b, rint.conf_a))
              => (rint.out.raw = rint.cand_b /\ rint.out.conf = rint.conf_b)
        /\ (Len(rint.cand_a) > Len(rint.cand_b)
               /\ NotWorse(rint.conf_a, rint.conf_b))
              => (rint.out.raw = rint.cand_a /\ rint.out.conf = rint.conf_a)
        /\ (rint.cand_a # <<>> /\ Len(rint.cand_b) < Len(rint.cand_a))
              => rint.out.raw = rint.cand_a
        /\ rint.out.raw \in {rint.cand_a, rint.cand_b}
        /\ rint.out = _read_int(FALSE, rint.eng)

C22_Witness ==
    /\ rint.pc = "returned"
    /\ rint.eng.data = Data(<<Tk(<<"1">>, 90), Tk(<<"2", "3">>, 20)>>)
    /\ rint.lenientRun
    /\ rint.cand_a = <<"1">>
    /\ rint.cand_b = <<"1", "2", "3", "4">>
    /\ rint.out.raw = rint.cand_b
    /\ rint.out.value = 1234

\* the side of the resized template at the k-th scale
SideAt(k) == Max2(MinTplSide, (TplSize.w * MatchScales[k]) \div 100)

\* the scales whose resized template fits inside the image
FittingScales ==
    {k \in 1..Len(MatchScales) :
        SideAt(k) <= mtch.image.h /\ SideAt(k) <= mtch.image.w}

\* the fitting scales at which the icon scores at least the threshold
Qualifying(n) ==
    {k \in FittingScales : mtch.image.icons[n].scores[k] >= DefaultThresh}

HitsOf(n) == {i \in 1..Len(mtch.hits) : mtch.hits[i].name = n}

(* C23: match_icons returns at most one hit per shard type, at most five   *)
(* in all, each with a score at or above the threshold; a shard type has a *)
(* hit exactly when its template is loaded and some scale that fits the    *)
(* image qualifies, and the hit is that of the highest score over those    *)
(* scales, the earliest scale on equal scores; scales that do not fit are  *)
(* skipped.                                                                *)
C23_BestHitPerShard ==
    mtch.pc = "done" =>
        /\ Len(mtch.hits) <= 5
        /\ \A n \in ShardNames :
              /\ Cardinality(HitsOf(n)) <= 1
              /\ HitsOf(n) # {} <=>
                    (n \in DOMAIN mtch.templates /\ Qualifying(n) # {})
              /\ \A i \in HitsOf(n) :
                    LET best == CHOOSE k \in Qualifying(n) :
                                   \A j \in Qualifying(n) :
                                      \/ mtch.image.icons[n].scores[j]
                                            < mtch.image.icons[n].scores[k]
                                      \/ /\ mtch.image.icons[n].scores[j]
                                              = mtch.image.icons[n].scores[k]
                                         /\ k <= j
                    IN  /\ mtch.hits[i].score >= DefaultThresh
                        /\ mtch.hits[i].score = mtch.image.icons[n].scores[best]
                        /\ mtch.hits[i].w = SideAt(best)
                        /\ mtch.hits[i].h = SideAt(best)

C23_Witness ==
    /\ mtch.pc = "done"
    /\ mtch.image.h = 13
    /\ mtch.image.icons["Mystery"].scores = <<65, 65, 80>>
    /\ mtch.image.icons["Void"].scores = <<50, 80, 80>>
    /\ DOMAIN mtch.templates = ShardNames
    /\ Len(mtch.hits) = 2
    /\ mtch.hits[1].name = "Mystery" /\ mtch.hits[1].score = 65
    /\ mtch.hits[1].w = 10
    /\ mtch.hits[2].name = "Void" /\ mtch.hits[2].score = 80
    /\ mtch.hits[2].w = 12

\* what the loop of the entry points gets for the i-th crop width
RatioRead(i) ==
    _read_counts_from_roi(shot, _left_rail_crop(BaseSize(shot), ratios[i]), i)

\* counts are those of the earliest crop width of maximal score, with the
\* missing keys set to 0, or the empty map if they are all zero
CountsOfBest(reads, counts) ==
    /\ \A i \in 1..Len(reads) :
          ~reads[i].raised /\ reads[i].score >= 0 /\ reads[i].score <= 5
    /\ \E i \in 1..Len(reads) :
          /\ \A j \in 1..Len(reads) : reads[j].score <= reads[i].score
          /\ \A j \in 1..(i - 1) : reads[j].score < reads[i].score
          /\ counts = IF SumCounts(WithDefaults(reads[i].counts), ShardNames) = 0
                      THEN EmptyCounts
                      ELSE WithDefaults(reads[i].counts)
    /\ \A n \in DOMAIN counts : counts[n] >= 0

(* C24: on a decodable image extract_counts_from_image_bytes reads the     *)
(* crop widths 0.38, 0.42, 0.46 in that order, each read has a score       *)
(* between 0 and 5, and the counts returned are those of the width of      *)
(* maximal score, the earliest on equal scores, none of them negative      *)
(* (the empty map standing for counts that are all zero).                  *)
C24_CountsOfBestRatio ==
    (OcrReturned /\ ocrCall = "extract_counts_from_image_bytes" /\ ocrStack
        /\ shot.decodable)
        => CountsOfBest([i \in 1..Len(ratios) |-> RatioRead(i)], ocrRes.counts)

(* C25: in _read_counts_from_roi the aggressive pass runs exactly when the
   primary pass came back with score 0; the aggressive pass's result is
   returned only when its score is strictly greater than the primary's; the
   returned score is the greatest score of the passes that ran; and what is
   returned is the whole result of one pass, never a mix of the two.  A call
   in which a pass raised returns nothing.                                  *)
PassRan(mode) == \E k \in 1..Len(pas.ran) : pas.ran[k] = mode

C25_FallbackIffPrimaryZero ==
    /\ pas.pc \in {"retry", "returned", "raised"}
           => /\ PassRan("primary")
              /\ PassRan("fallback") => pas.ran = <<"primary", "fallback">>
    /\ pas.pc = "retry" => ~pas.primary.raised /\ pas.primary.score = 0
    /\ pas.pc = "returned" =>
          /\ PassRan("fallback") <=> pas.primary.score = 0
          /\ pas.from = "fallback"
                => PassRan("fallback") /\ pas.fallback.score > pas.primary.score
          /\ pas.out.score =
                IF PassRan("fallback")
                THEN Max2(pas.primary.score, pas.fallback.score)
                ELSE pas.primary.score
          /\ \/ pas.from = "primary" /\ pas.out = pas.primary
             \/ pas.from = "fallback" /\ pas.out = pas.fallback
          /\ pas.out = _read_counts_from_roi(pas.shot,
                           PassRoi(pas.shot, pas.r), pas.r)
    /\ pas.pc = "raised" =>
          _read_counts_from_roi(pas.shot, PassRoi(pas.shot, pas.r), pas.r).raised

\* both passes ran on a blank left rail and the primary's zeros came back
C25_Witness ==
    /\ pas.pc = "returned"
    /\ pas.ran = <<"primary", "fallback">>
    /\ pas.primary.score = 0
    /\ pas.from = "primary"
    /\ pas.out.score = 0

(* C26: for every tile hit that lies inside the image, the number region
   that tiles_to_number_rois computes lies inside the estimated tile box
   and inside the image: 0 <= x, 0 <= y, x + width <= image width,
   y + height <= image height, width >= 0 and height >= 0.                 *)
HitInside(image, hit) ==
    /\ 0 <= hit.x /\ hit.x + hit.w <= image.w
    /\ 0 <= hit.y /\ hit.y + hit.h <= image.h

\* the estimated tile box of a hit: the icon's box widened to 2.1 and 1.9
\* times its size from a quarter and a third of it back, cut at the image
EstimatedTile(image, hit) ==
    LET x == IF hit.x - (25 * hit.w) \div 100 < 0 THEN 0
             ELSE hit.x - (25 * hit.w) \div 100
        y == IF hit.y - (35 * hit.h) \div 100 < 0 THEN 0
             ELSE hit.y - (35 * hit.h) \div 100
        x2 == x + (21 * hit.w) \div 10
        y2 == y + (19 * hit.h) \div 10
    IN  [x |-> x, y |-> y,
         x2 |-> IF x2 > image.w THEN image.w ELSE x2,
         y2 |-> IF y2 > image.h THEN image.h ELSE y2]

InsideBox(region, x, y, x2, y2) ==
    /\ region.w >= 0 /\ region.h >= 0
    /\ x <= region.x /\ region.x + region.w <= x2
    /\ y <= region.y /\ region.y + region.h <= y2

C26_NumberRegionInsideTileAndImage ==
    nroi.pc = "done" =>
        /\ Len(nroi.out) = Len(nroi.hits)
        /\ \A i \in 1..Len(nroi.hits) :
              HitInside(nroi.image, nroi.hits[i]) =>
                 LET tile == EstimatedTile(nroi.image, nroi.hits[i])
                 IN  /\ nroi.out[i].name = nroi.hits[i].name
                     /\ InsideBox(nroi.out[i], tile.x, tile.y, tile.x2, tile.y2)
                     /\ InsideBox(nroi.out[i], 0, 0, nroi.image.w, nroi.image.h)

\* a hit in the bottom right corner: its tile box is cut at the image and the
\* number region inside it is not empty
C26_Witness ==
    /\ nroi.pc = "done"
    /\ \E i \in 1..Len(nroi.hits) :
          /\ nroi.hits[i].x + nroi.hits[i].w = nroi.image.w
          /\ nroi.hits[i].y + nroi.hits[i].h = nroi.image.h
          /\ EstimatedTile(nroi.image, nroi.hits[i]).y2 = nroi.image.h
          /\ nroi.out[i].w > 0
          /\ nroi.out[i].h > 0

-----------------------------------------------------------------------------
(* The claims about the life of a claim.                                   *)

(* C27: a claim's expiry is announced at most once, only by the timeout of
   the first prompt's view, and only while the claim's state is still
   "open": never for a claim whose state is "canceled" or "closed".        *)
C27_ExpiryOnceWhileOpen ==
    [][clm.announced' # clm.announced =>
          /\ clm.CLAIM_STATE = "open"
          /\ clm.first = "waiting"
          /\ clm.first' = "timedout"
          /\ clm.announced = 0
          /\ clm.announced' = 1
          /\ clm.CLAIM_STATE' = "expired"
          /\ clm.said' = "expired"]_vars

\* the first prompt's view timed out on an open claim whose prompt had gone
\* on to the role picker
C27_Witness ==
    /\ clm.announced = 1
    /\ clm.said = "expired"
    /\ clm.CLAIM_STATE = "expired"
    /\ clm.first = "timedout"
    /\ clm.views["prompt"] = "role"

(* C28: once a claim has been announced as expired, no later interaction
   on the claim's pickers grants a role or starts a Guardian Knight review
   for it.                                                                  *)
C28_NothingAfterExpiry ==
    clm.announced > 0 => clm.said \notin {"grant", "review"}

(* C29: "canceled", "expired" and "closed" are terminal: once CLAIM_STATE
   of a claim has left "open" it never changes again.                       *)
C29_TerminalStates ==
    [][clm.CLAIM_STATE \in {"canceled", "expired", "closed"}
          => clm.CLAIM_STATE' = clm.CLAIM_STATE]_vars

-----------------------------------------------------------------------------
(* The claim about level_whisper_bot's grouped messages.                   *)

\* the messages of the levels channel that name the role
Announcing(role) == {k \in 1..Len(lvl.levels) : role \in lvl.levels[k]}

(* C30: with a levels channel, every recognised non-special role added to
   a user is announced in exactly one grouped message: never twice, and,
   once no flush is pending, never lost; this also when a role arrives
   while a flush for the user is in progress.                               *)
C30_AnnouncedExactlyOnce ==
    \A role \in LevelRoles :
        /\ Cardinality(Announcing(role)) <= 1
        /\ (role \in lvl.added /\ ~Pending(lvl))
               => Cardinality(Announcing(role)) = 1

(* C31: a special champion's role is announced at once, in a message of
   its own, and is never grouped: a name of SPECIAL_CHAMPIONS is never in
   a user's buffer nor in a grouped message under way, whether the
   audit-log post or the member update brought it.                          *)
C31_SpecialsNeverBuffered ==
    /\ lvl.roles \cap SPECIAL_CHAMPIONS = {}
    /\ lvl.sending \cap SPECIAL_CHAMPIONS = {}
    /\ lvl.added \cap SPECIAL_CHAMPIONS = {}
    /\ \A k \in 1..Len(lvl.levels) :
          lvl.levels[k] \cap SPECIAL_CHAMPIONS # {}
              => Cardinality(lvl.levels[k]) = 1
    /\ \A rn \in lvl.given \cap SPECIAL_CHAMPIONS :
          \E k \in 1..Len(lvl.levels) : lvl.levels[k] = {rn}

\* two special champions came together with a cluster's role: two messages
\* of their own are in the channel while the role waits in the buffer
C31_Witness ==
    /\ SPECIAL_CHAMPIONS \subseteq lvl.given
    /\ lvl.task = "sleeping"
    /\ lvl.roles = {"Hydra Normal"}
    /\ Len(lvl.levels) = 2
    /\ \A rn \in SPECIAL_CHAMPIONS : Announcing(rn) # {}

-----------------------------------------------------------------------------
(* The claims about the claims bot's praise and watchdog.                  *)

\* the places an achievement is in: the buffer, a flush under way, a praise
\* message
InSeq(seq, x) == \E i \in 1..Len(seq) : seq[i] = x

Occurrences(seq, x) == Cardinality({i \in 1..Len(seq) : seq[i] = x})

PlacesOf(ach) ==
    Occurrences(grp.items, ach)
    + Cardinality({k \in 1..Len(grp.tasks) :
                      grp.tasks[k] = "flushing" /\ InSeq(grp.flight[k], ach)})
    + Cardinality({m \in 1..Len(grp.praise) : InSeq(grp.praise[m], ach)})

(* C32: with the levels channel configured, every achievement for which
   finalize_grant succeeded is in exactly one praise message; each newly
   buffered item cancels the user's timer and starts a new one; a flush
   removes the user's entry, so that a later grant starts a new group.      *)
C32_PraisedExactlyOnce ==
    /\ \A ach \in 1..Len(grp.tasks) :
          /\ PlacesOf(ach) = 1
          /\ \A m \in 1..Len(grp.praise) : Occurrences(grp.praise[m], ach) <= 1
          /\ (~grp.entry /\ \A k \in 1..Len(grp.tasks) : grp.tasks[k] = "done")
                => \E m \in 1..Len(grp.praise) : InSeq(grp.praise[m], ach)
    /\ \A k \in 1..Len(grp.tasks) :
          grp.tasks[k] = "waiting" <=> (grp.entry /\ grp.task = k)
    /\ grp.entry => grp.task = Len(grp.tasks) /\ grp.items # <<>>
    /\ ~grp.entry => grp.items = <<>> /\ grp.task = 0

\* two grants within the window went out as one message, the third came
\* while that flush was under way and went out as a message of its own
C32_Witness ==
    /\ grp.praise = << <<1, 2>>, <<3>> >>
    /\ grp.tasks = <<"cancelled", "done", "done">>
    /\ ~grp.entry

\* the watchdog has run at the present time
WatchTicked == wd.ticked /\ wd.now > WATCHDOG_CHECK_SEC

\* a connected bot with a gateway event in the last 600 seconds is never
\* restarted, and a bot is restarted as disconnected only while the
\* connection is down
NoRestartWhileHealthy ==
    /\ wd.restarted = "zombie"
          => wd.BOT_CONNECTED /\ wd.now - wd._LAST_EVENT_TS > ZombieIdleSec
    /\ wd.restarted = "disconnected"
          => wd.link = "down" /\ ~wd.BOT_CONNECTED

(* C33: if the bot has been disconnected for longer than
   WATCHDOG_MAX_DISCONNECT_SEC, the watchdog's next run restarts the
   process, whatever disconnect events came during the outage; and while
   the bot is connected and a gateway event was seen in the last 600
   seconds the watchdog never restarts it.                                  *)
C33_RestartAfterLongOutage ==
    /\ (WatchTicked /\ wd.link = "down"
           /\ wd.now - wd.downSince > WATCHDOG_MAX_DISCONNECT_SEC)
          => wd.restarted = "disconnected"
    /\ NoRestartWhileHealthy

\* without a second disconnect event in the outage the restart does come
RestartAfterQuietOutage ==
    (WatchTicked /\ wd.link = "down" /\ wd._LAST_DISCONNECT_TS = wd.downSince
        /\ wd.now - wd.downSince > WATCHDOG_MAX_DISCONNECT_SEC)
       => wd.restarted = "disconnected"

-----------------------------------------------------------------------------
(* The claims about the shard scan panel.                                  *)

\* "Use these counts" has put up its form
UseFormShown == pan.modal = "_use_counts"

(* C34, as stated: "Use these counts" prefills the form with the counts of
   the panel's most recent OCR preview; after "Retry OCR" has replaced the
   preview and the cache entry, the form is made from the new counts, not
   from those of the first scan.                                            *)
C34_PrefillFromLatestPreview ==
    UseFormShown => pan.prefill = pan.preview

(* C34, amended: "Use these counts" prefills the form with the counts the
   panel was opened with; "Retry OCR" replaces the preview and the cache
   entry and leaves them as they are.  The numbers in the form are still
   those of the latest preview, every OCR result being five zeros.          *)
C34_PrefillFromFirstScan ==
    /\ pan.panel # "none" =>
          /\ pan.counts.run <= pan.preview.run
          /\ pan.preview = pan.cache
          /\ pan.counts.vals = pan.preview.vals
    /\ UseFormShown =>
          /\ pan.prefill = pan.counts
          /\ pan.prefill.vals = pan.preview.vals
          /\ pan.children = SetCountsModal(pan.preview.vals)

\* the form of "Use these counts" is up after a Retry OCR
C34_Witness ==
    /\ UseFormShown
    /\ pan.preview.run > pan.prefill.run
    /\ pan.last.button = "use"

\* the user of a step has no right to its button
Unauthorized(p, user, button) ==
    \/ button \in {"scan", "dismiss"} /\ ~(user \in {"author", "staff"})
    \/ button \in {"use", "manual", "retry", "close"} /\ user # p.owner

(* C35: Scan and Dismiss act only for the image author or a member with a
   staff-override role, and each button of the ephemeral panel acts only
   for the user the panel was opened for; for anybody else no OCR runs, no
   cache entry changes, no snapshot is appended and nothing else happens.   *)
C35_OnlyAuthorStaffOrOwner ==
    [][Unauthorized(pan, pan'.last.user, pan'.last.button)
          => pan' = [pan EXCEPT !.last = pan'.last]]_vars

\* somebody else pressed Retry OCR on the author's panel
C35_Witness ==
    /\ pan.last = [user |-> "other", button |-> "retry"]
    /\ pan.panel = "open"
    /\ pan.owner = "author"
    /\ pan.runs = 1
====
